---- MODULE Spec2Model ----
(***************************************************************************)
(* Platter: directory watcher, command handler and scene registry.         *)
(*                                                                         *)
(* Option<T> values are modelled as sequences: None is <<>> and Some(x)    *)
(* is <<x>>.  Paths are sequences of path components.                      *)
(***************************************************************************)
EXTENDS Integers, Sequences, FiniteSets, TLC

NoneV == <<>>
Some(x) == <<x>>
IsSome(o) == o /= <<>>
Unwrap(o) == o[1]

\* ------------------------------------------------------------------------
\* Bounds of the model
\* ------------------------------------------------------------------------
\* number of changes of the watched tree (file copies and folder creations)
\* explored
MaxArrivals == 3
\* notifications still queued for the watcher when the next filesystem
\* change happens
MaxBacklog == 0
\* number of remote set_* invocations explored
MaxInvokes == 1
\* number of invocations of the client that moves a loaded scene
MaxCalls == 3
\* number of `v`, `vt`, `vn` lines before the face of an OBJ input
MaxDefs == 2
\* number of face sections of an OBJ input
MaxSections == 2
\* number of scene ids handed out by the registry on its own
MaxAdds == 3
\* number of nodes of a glTF document
MaxNodes == 4

\* capacity of the command channel
ChannelCap == 16

\* ------------------------------------------------------------------------
\* Wavefront OBJ import (import_obj.rs)
\* ------------------------------------------------------------------------
\* Lines of an OBJ file, already split into directive and tokens.
LineV(toks) == [d |-> "v", toks |-> toks, corners |-> <<>>, name |-> ""]
LineVN(toks) == [d |-> "vn", toks |-> toks, corners |-> <<>>, name |-> ""]
LineVT(toks) == [d |-> "vt", toks |-> toks, corners |-> <<>>, name |-> ""]
LineF(corners) == [d |-> "f", toks |-> <<>>, corners |-> corners, name |-> ""]
LineO(name) == [d |-> "o", toks |-> <<>>, corners |-> <<>>, name |-> name]
LineOther == [d |-> "usemtl", toks |-> <<>>, corners |-> <<>>, name |-> ""]

\* a face corner "v/t/n" after the three i32 parses: each part is an Option
Corner(v, t, n) == [v |-> v, t |-> t, n |-> n]
CornerV(v) == Corner(Some(v), NoneV, NoneV)

FaceMarkerEnd == [end |-> TRUE, def |-> Corner(NoneV, NoneV, NoneV)]
FaceMarkerDef(fd) == [end |-> FALSE, def |-> fd]

WFObjectStateNew ==
    [vert_list |-> <<>>, normal_list |-> <<>>, tex_list |-> <<>>,
     obj_face_list |-> [n \in {} |-> <<>>],
     last_name |-> "", last_face_list |-> <<>>]

TokOr(toks, i, dflt) == IF i <= Len(toks) THEN toks[i] ELSE dflt

handle_v(obj, toks) ==
    LET n == IF Len(toks) > 6 THEN 6 ELSE Len(toks)
        c == IF n = 0 THEN 0 ELSE n - 1
        v == [i \in 1..6 |-> IF i <= n THEN toks[i] ELSE IF i <= 3 THEN 0 ELSE 1]
        p == IF c = 4 /\ v[4] /= 0
             THEN <<v[1] \div v[4], v[2] \div v[4], v[3] \div v[4]>>
             ELSE <<v[1], v[2], v[3]>>
    IN  [obj EXCEPT !.vert_list = Append(@, p)]

handle_vn(obj, toks) ==
    [obj EXCEPT !.normal_list =
        Append(@, <<TokOr(toks, 1, 0), TokOr(toks, 2, 0), TokOr(toks, 3, 0)>>)]

handle_vt(obj, toks) ==
    [obj EXCEPT !.tex_list =
        Append(@, <<TokOr(toks, 1, 0), TokOr(toks, 2, 0), TokOr(toks, 3, 0)>>)]

FaceDefNew(c) ==
    IF IsSome(c.v) THEN c ELSE Corner(NoneV, NoneV, NoneV)

SanitizeIndex_FromFirst(o, len) ==
    IF IsSome(o) THEN Some(Unwrap(o) - 1) ELSE NoneV

SanitizeIndex(o, len) ==
    IF IsSome(o)
    THEN (IF Unwrap(o) < 0 THEN Some(len + Unwrap(o)) ELSE Some(Unwrap(o) - 1))
    ELSE NoneV

FaceDefSanitize(fd, vert_list, normal_list, tex_list) ==
    [v |-> SanitizeIndex(fd.v, Len(vert_list)),
     n |-> SanitizeIndex(fd.n, Len(normal_list)),
     t |-> SanitizeIndex(fd.t, Len(tex_list))]

handle_f(obj, corners) ==
    [obj EXCEPT !.last_face_list =
        @ \o [i \in 1..Len(corners) |->
                FaceMarkerDef(FaceDefSanitize(FaceDefNew(corners[i]),
                    obj.vert_list, obj.normal_list, obj.tex_list))]
          \o <<FaceMarkerEnd>>]

MapInsert(m, k, val) ==
    [x \in (DOMAIN m) \cup {k} |-> IF x = k THEN val ELSE m[x]]

push_object(obj) ==
    IF obj.last_face_list = <<>>
    THEN obj
    ELSE LET name == IF obj.last_name = "" THEN "Unknown" ELSE obj.last_name
         IN  [obj EXCEPT !.obj_face_list = MapInsert(@, name, obj.last_face_list),
                         !.last_face_list = <<>>]

handle_o(obj, name) ==
    [push_object(obj) EXCEPT !.last_name = name]

WFHandle(obj, line) ==
    CASE line.d = "v" -> handle_v(obj, line.toks)
      [] line.d = "vn" -> handle_vn(obj, line.toks)
      [] line.d = "vt" -> handle_vt(obj, line.toks)
      [] line.d = "f" -> handle_f(obj, line.corners)
      [] line.d = "o" -> handle_o(obj, line.name)
      [] OTHER -> obj

\* F applied to the value of x: the value is computed once, whatever the
\* number of places where F uses it
Bind(x, F(_)) == CHOOSE r \in {F(v) : v \in {x}} : TRUE

RECURSIVE WFHandleAll(_, _)
WFHandleAll(obj, lines) ==
    IF lines = <<>> THEN obj
    ELSE Bind(WFHandle(obj, Head(lines)), LAMBDA o : WFHandleAll(o, Tail(lines)))

\* `x as usize` of a negative i32 is a huge index: any index outside
\* 0..len-1 makes the slice access panic
IndexPanics(o, len) == IsSome(o) /\ (Unwrap(o) < 0 \/ Unwrap(o) >= len)

AssemblePanics(obj, f) ==
    \/ IndexPanics(f.v, Len(obj.vert_list))
    \/ IndexPanics(f.n, Len(obj.normal_list))
    \/ IndexPanics(f.t, Len(obj.tex_list))

\* saturating float -> u16 cast of a texture coordinate scaled by 65535
QuantizeUV(s) ==
    LET x == s * 65535 IN IF x < 0 THEN 0 ELSE IF x > 65535 THEN 65535 ELSE x

assemble_vertex(obj, f) ==
    [position |-> IF IsSome(f.v) THEN obj.vert_list[Unwrap(f.v) + 1] ELSE <<0, 0, 0>>,
     normal |-> IF IsSome(f.n) THEN obj.normal_list[Unwrap(f.n) + 1] ELSE <<0, 0, 0>>,
     texture |-> IF IsSome(f.t)
                 THEN <<QuantizeUV(obj.tex_list[Unwrap(f.t) + 1][1]),
                        QuantizeUV(obj.tex_list[Unwrap(f.t) + 1][2])>>
                 ELSE <<0, 0>>]

\* a 4-element slice has the single window of all four indices; reading a
\* vertex outside the object's own vertex buffer panics
ConcavePanics(indicies, vs) == \E i \in 1..4 : indicies[i] >= Len(vs)

get_concave_vertex(indicies, vs) ==
    <<indicies[1], indicies[2], indicies[3], indicies[4]>>

compute_quad(indicies, vs) ==
    LET start_vertex == get_concave_vertex(indicies, vs)
    IN  << <<start_vertex[1], start_vertex[2], start_vertex[3]>>,
           <<start_vertex[1], start_vertex[3], start_vertex[4]>> >>

\* The inner loop of pack_wf_state over the face markers of one object.
\* st = [panic, remap, verts, faces, cache]; the remapper is shared by all
\* objects of the file, the vertex buffer and its counter are per object.
PackMarker(obj, st, m) ==
    IF st.panic THEN st
    ELSE IF ~m.end
    THEN IF m.def \in DOMAIN st.remap
         THEN [st EXCEPT !.cache = Append(@, st.remap[m.def])]
         ELSE IF AssemblePanics(obj, m.def)
              THEN [st EXCEPT !.panic = TRUE]
              ELSE [st EXCEPT !.remap = MapInsert(@, m.def, Len(st.verts)),
                              !.verts = Append(@, assemble_vertex(obj, m.def)),
                              !.cache = Append(@, Len(st.verts))]
    ELSE IF Len(st.cache) = 3
         THEN [st EXCEPT !.faces = Append(@, st.cache), !.cache = <<>>]
         ELSE IF Len(st.cache) = 4
              THEN IF ConcavePanics(st.cache, st.verts)
                   THEN [st EXCEPT !.panic = TRUE]
                   ELSE [st EXCEPT !.faces = @ \o compute_quad(st.cache, st.verts),
                                   !.cache = <<>>]
              ELSE [st EXCEPT !.cache = <<>>]

RECURSIVE PackMarkers(_, _, _)
PackMarkers(obj, st, ms) ==
    IF ms = <<>> THEN st
    ELSE Bind(PackMarker(obj, st, Head(ms)), LAMBDA s : PackMarkers(obj, s, Tail(ms)))

\* The outer loop of pack_wf_state; order is the iteration order of the
\* HashMap of objects.  acc = [panic, remap, ret]
RECURSIVE PackObjects(_, _, _)
PackObjects(obj, acc, order) ==
    IF order = <<>> \/ acc.panic THEN acc
    ELSE LET name == Head(order)
         IN  Bind(PackMarkers(obj,
                      [panic |-> FALSE, remap |-> acc.remap, verts |-> <<>>,
                       faces |-> <<>>, cache |-> <<>>],
                      obj.obj_face_list[name]),
                  LAMBDA st :
                      Bind([panic |-> st.panic, remap |-> st.remap,
                            ret |-> Append(acc.ret,
                                      [name |-> name, verts |-> st.verts, faces |-> st.faces])],
                           LAMBDA a : PackObjects(obj, a, Tail(order))))

pack_wf_state(obj0, order) ==
    Bind(push_object(obj0),
         LAMBDA obj : PackObjects(obj, [panic |-> FALSE, remap |-> [f \in {} |-> 0],
                                        ret |-> <<>>],
                                  order))

\* the possible iteration orders of the object map of a parsed file
RECURSIVE SeqsOf(_)
SeqsOf(S) ==
    IF S = {} THEN {<<>>}
    ELSE UNION {{<<x>> \o s : s \in SeqsOf(S \ {x})} : x \in S}

ObjOrders(lines) ==
    SeqsOf(DOMAIN push_object(WFHandleAll(WFObjectStateNew, lines)).obj_face_list)

\* VertexSource::pack_bytes: the size in bytes of the packed buffer of an
\* object, 28 bytes per VertexTexture and three u32 per triangle
PackedBytes(o) == 28 * Len(o.verts) + 12 * Len(o.faces)

\* import_obj::import_file on the lines of a readable file: the outcome is
\* a panic, or a scene with one part (entity) and one hosted asset per
\* packed object and an empty published list.  meshes tells, for each
\* packed object, the size of its buffer and how the geometry refers to it.
ObjImport(lines, order) ==
    Bind(pack_wf_state(WFHandleAll(WFObjectStateNew, lines), order),
         LAMBDA packed : [panic |-> packed.panic,
                          nparts |-> Len(packed.ret),
                          nassets |-> Len(packed.ret),
                          published |-> <<>>,
                          meshes |-> [n \in 1..Len(packed.ret) |->
                                        [bytes |-> PackedBytes(packed.ret[n]),
                                         repr |-> "url"]]])


\* ------------------------------------------------------------------------
\* Files and paths
\* ------------------------------------------------------------------------
WatchDir == <<"w">>
D1 == <<"w", "d1">>
D2 == <<"w", "d2">>
Dirs == {WatchDir, D1, D2}

V3 == LineV(<<0, 0, 0>>)
CubeObj == <<V3, LineV(<<1, 0, 0>>), LineV(<<0, 1, 0>>), LineF(<<CornerV(1), CornerV(2), CornerV(3)>>)>>
MonkeyObj ==
    <<LineO("M"), V3, LineV(<<1, 0, 0>>), LineV(<<0, 1, 0>>), LineV(<<1, 1, 0>>),
      LineF(<<CornerV(1), CornerV(2), CornerV(4), CornerV(3)>>)>>
TwoObj ==
    <<LineO("A"), V3, LineV(<<1, 0, 0>>), LineV(<<0, 1, 0>>), LineV(<<1, 1, 0>>),
      LineF(<<CornerV(1), CornerV(2), CornerV(4), CornerV(3)>>),
      LineO("B"), LineOther, LineF(<<CornerV(-1), CornerV(-2), CornerV(-4)>>)>>
NoFacesObj == <<V3, LineV(<<1, 0, 0>>), LineV(<<0, 1, 0>>)>>
ZeroObj == <<V3, LineV(<<1, 0, 0>>), LineV(<<0, 1, 0>>), LineF(<<CornerV(0), CornerV(1), CornerV(2)>>)>>
BeyondObj == <<V3, LineV(<<1, 0, 0>>), LineV(<<0, 1, 0>>), LineF(<<CornerV(1), CornerV(2), CornerV(4)>>)>>

FileName(p) == p[Len(p)]

\* extension and content of the files of the model, by file name
FileExt(name) == IF name = "notes.txt" THEN "txt" ELSE IF name \in {"d1", "d2", "w"} THEN "" ELSE "obj"

FileLines(name) ==
    CASE name = "cube.obj" -> CubeObj
      [] name = "monkey.obj" -> MonkeyObj
      [] name = "two.obj" -> TwoObj
      [] name = "nofaces.obj" -> NoFacesObj
      [] name = "zero.obj" -> ZeroObj
      [] name = "beyond.obj" -> BeyondObj
      [] OTHER -> <<>>

\* import_obj::import_file on each file content of the model, for each walk
\* of its objects
FileNames ==
    {"cube.obj", "monkey.obj", "two.obj", "nofaces.obj", "zero.obj", "beyond.obj",
     "notes.txt", "d1", "d2", "w"}
ObjImportOf ==
    [n \in FileNames |->
        [order \in ObjOrders(FileLines(n)) |-> ObjImport(FileLines(n), order)]]

\* Path::strip_prefix succeeds when base is a component-wise prefix of p
StripPrefixOk(p, base) ==
    Len(base) <= Len(p) /\ SubSeq(p, 1, Len(base)) = base

IsDir(files, p) == p \in files /\ p \in Dirs
IsFile(files, p) == p \in files /\ p \notin Dirs

\* directory entries whose DirEntry may come back as an error
FlakyEntries == {<<"w", "notes.txt">>}

\* fs::read_dir: the entries directly inside d
ReadDir(files, d) == {p \in files : Len(p) = Len(d) + 1 /\ StripPrefixOk(p, d)}

\* import::import_file, the dispatch on the file extension: a missing file
\* and an unknown extension are errors, an .obj file goes to the OBJ importer
ImportDispatch(files, p, order) ==
    IF p \notin files THEN [err |-> TRUE, panic |-> FALSE, nparts |-> 0, nassets |-> 0, published |-> <<>>, meshes |-> <<>>]
    ELSE IF FileExt(FileName(p)) = "obj"
    THEN [err |-> FALSE] @@ ObjImportOf[FileName(p)][order]
    ELSE [err |-> TRUE, panic |-> FALSE, nparts |-> 0, nassets |-> 0, published |-> <<>>, meshes |-> <<>>]

\* ------------------------------------------------------------------------
\* Commands (platter_state.rs PlatterCommand).  ev is a history field: the
\* number of the filesystem event whose handling sent the command (0 for
\* the initial command and for load_existing).
\* ------------------------------------------------------------------------
NoCfg == [dir |-> <<>>, load_existing |-> FALSE, latest_only |-> FALSE, organize_by_dir |-> FALSE]
LoadFile(p, tag, ev) == [op |-> "LoadFile", path |-> p, tag |-> tag, cfg |-> NoCfg, ev |-> ev]
ClearTag(tag, ev) == [op |-> "ClearTag", path |-> <<>>, tag |-> Some(tag), cfg |-> NoCfg, ev |-> ev]
WatchDirectory(cfg) == [op |-> "WatchDirectory", path |-> <<>>, tag |-> NoneV, cfg |-> cfg, ev |-> 0]
NoCmd == [op |-> "", path |-> <<>>, tag |-> NoneV, cfg |-> NoCfg, ev |-> 0]

Directory(lx, lo, od) ==
    [dir |-> WatchDir, load_existing |-> lx, latest_only |-> lo, organize_by_dir |-> od]

VARIABLES
    files,          \* the paths that exist in the filesystem
    target_macos,   \* cfg(target_os = "macos") of the build
    cmdq,           \* the command channel (command_tx / command_rx)
    watcher_rx,     \* the watcher_command_stream channel
    hpc,            \* command_handler: "recv", "lock", "run", "dir", "panicked"
    cur,            \* the command being handled
    entries,        \* import_dir: the directory entries still to import
    lock_holder,    \* the PlatterState mutex: "none", "handler", "method"
    items,          \* PlatterState::items
    root_to_item,   \* PlatterState::root_to_item
    next_item_id,   \* PlatterState::next_item_id
    source_map,     \* PlatterState::source_map
    next_entity,    \* entity ids handed out by the NOODLES server state
    next_asset,     \* asset ids handed out by create_asset_id
    hosted,         \* asset ids currently in the asset store
    remove_calls,   \* number of remove_asset calls per asset id
    entities,       \* the entities of the NOODLES server state, by id
    next_tag,       \* Tag::new: the next fresh tag
    wpc,            \* watcher: "unspawned", "load_existing", "select", "sending", "panicked"
    wcfg,           \* the Directory the watcher was launched with
    latest_dir,     \* launch_file_watcher: latest_dir
    latest_tag,     \* launch_file_watcher: latest_tag
    subscribed,     \* watcher.watch has been called
    fsq,            \* notifications not yet received by the watcher loop
    existing,       \* load_existing: directory entries still to send
    listing,        \* history: what load_existing read from the directory
    stop_sent,      \* a stop message is in the watcher's broadcast receiver
    todo,           \* commands the current event handler still has to send
    todo_dir,       \* latest_dir assignment that follows the pending send
    mpc,            \* method invocation: "idle", "lock", "body"
    minv,           \* the invocation being served
    invokes,        \* number of invocations so far
    arrivals,       \* history: the filesystem changes, in order
    handled,        \* history: the events taken by the watcher loop
    emitted,        \* history: the commands sent by the watcher
    enqueued,       \* history: every command sent to the command channel
    processed,      \* history: the commands received by the handler
    attempts,       \* history: the imports attempted for the current command
    ifile,          \* OBJ import: the lines of the file that is read
    iread,          \* OBJ import: number of lines handled so far
    wfobj,          \* OBJ import: the WFObjectState
    all_objs,       \* OBJ import: the result of pack_wf_state, once packed
    gltf,           \* glTF import: the children of each node of the document
    gnext,          \* glTF import: the next node of the loop over gltf.nodes()
    n_nodes,        \* glTF import: glTF node index -> entity
    gentities,      \* glTF import: the entities created, with their parent
    gparts          \* glTF import: the parts of the root Object, once built

vars == <<files, target_macos, cmdq, watcher_rx, hpc, cur, entries, lock_holder,
          items, root_to_item, next_item_id, source_map, next_entity,
          next_asset, hosted, remove_calls, entities, next_tag, wpc, wcfg, latest_dir,
          latest_tag, subscribed, fsq, existing, listing, stop_sent, todo, todo_dir,
          mpc, minv,
          invokes, arrivals, handled, emitted, enqueued, processed,
          attempts, ifile, iread, wfobj, all_objs,
          gltf, gnext, n_nodes, gentities, gparts>>

handlerVars == <<hpc, cur, entries, processed, attempts>>
registryVars == <<items, root_to_item, next_item_id, source_map, next_entity,
                  next_asset, hosted, remove_calls, entities>>
watcherVars == <<wpc, wcfg, latest_dir, latest_tag, subscribed, existing, listing, todo,
                 todo_dir, next_tag, handled, emitted>>
methodVars == <<mpc, minv, invokes>>
envVars == <<files, target_macos, arrivals, stop_sent>>
gltfVars == <<gltf, gnext, n_nodes, gentities, gparts>>
importVars == <<ifile, iread, wfobj, all_objs, gltfVars>>


\* ------------------------------------------------------------------------
\* f32 values and the transform of a scene (scene.rs).  A float is an
\* integer or NaN; the arithmetic is exact on the integers of the model and
\* NaN propagates as in IEEE 754.
\* ------------------------------------------------------------------------
NaN == <<>>
Fl(x) == <<x>>
IsNaN(a) == a = NaN
Zero == Fl(0)
One == Fl(1)

FAdd(a, b) == IF IsNaN(a) \/ IsNaN(b) THEN NaN ELSE Fl(a[1] + b[1])
FSub(a, b) == IF IsNaN(a) \/ IsNaN(b) THEN NaN ELSE Fl(a[1] - b[1])
FMul(a, b) == IF IsNaN(a) \/ IsNaN(b) THEN NaN ELSE Fl(a[1] * b[1])
\* 0/0 is NaN; the quotients of the model are exact
FDiv(a, b) ==
    IF IsNaN(a) \/ IsNaN(b) THEN NaN
    ELSE IF b[1] = 0 THEN NaN
    ELSE IF a[1] >= 0 THEN Fl(a[1] \div b[1]) ELSE Fl(-((-a[1]) \div b[1]))
\* the square root, on the squares of the model
FSqrt(a) == IF IsNaN(a) THEN NaN ELSE Fl(CHOOSE n \in 0..a[1] : n * n = a[1])

Vec3(x, y, z) == <<Fl(x), Fl(y), Fl(z)>>
Vec3Identity == Vec3(0, 0, 0)
Scale3Identity == Vec3(1, 1, 1)
\* nalgebra Quaternion: w is the scalar part, (i, j, k) the vector part
Quat(w, i, j, k) == [w |-> w, i |-> i, j |-> j, k |-> k]
QuatIdentity == Quat(One, Zero, Zero, Zero)

\* UnitQuaternion::from_quaternion: the quaternion divided by its norm
UnitFromQuaternion(q) ==
    LET n == FSqrt(FAdd(FAdd(FMul(q.w, q.w), FMul(q.i, q.i)),
                        FAdd(FMul(q.j, q.j), FMul(q.k, q.k))))
    IN  Quat(FDiv(q.w, n), FDiv(q.i, n), FDiv(q.j, n), FDiv(q.k, n))

\* 4x4 matrices as sequences of rows
MatMul(A, B) ==
    [r \in 1..4 |-> [c \in 1..4 |->
        FAdd(FAdd(FMul(A[r][1], B[1][c]), FMul(A[r][2], B[2][c])),
             FAdd(FMul(A[r][3], B[3][c]), FMul(A[r][4], B[4][c])))]]

\* the rotation matrix of a unit quaternion
RotationMatrix(q) ==
    LET Two == Fl(2)
        ww == FMul(q.w, q.w)  ii == FMul(q.i, q.i)
        jj == FMul(q.j, q.j)  kk == FMul(q.k, q.k)
        ij == FMul(FMul(q.i, q.j), Two)  wk == FMul(FMul(q.w, q.k), Two)
        wj == FMul(FMul(q.w, q.j), Two)  ik == FMul(FMul(q.i, q.k), Two)
        jk == FMul(FMul(q.j, q.k), Two)  wi == FMul(FMul(q.w, q.i), Two)
    IN  << <<FSub(FSub(FAdd(ww, ii), jj), kk), FSub(ij, wk), FAdd(wj, ik)>>,
           <<FAdd(wk, ij), FSub(FAdd(FSub(ww, ii), jj), kk), FSub(jk, wi)>>,
           <<FSub(ik, wj), FAdd(wi, jk), FAdd(FSub(FSub(ww, ii), jj), kk)>> >>

\* Isometry3::to_homogeneous: the rotation block with the translation column
IsometryToHomogeneous(t, q) ==
    LET R == RotationMatrix(q)
    IN  << <<R[1][1], R[1][2], R[1][3], t[1]>>,
           <<R[2][1], R[2][2], R[2][3], t[2]>>,
           <<R[3][1], R[3][2], R[3][3], t[3]>>,
           <<Zero, Zero, Zero, One>> >>

\* Scale3::to_homogeneous
ScaleToHomogeneous(s) ==
    << <<s[1], Zero, Zero, Zero>>, <<Zero, s[2], Zero, Zero>>,
       <<Zero, Zero, s[3], Zero>>, <<Zero, Zero, Zero, One>> >>

\* the product with the scale on the left
SceneTransform_ScaleFirst(o) ==
    MatMul(ScaleToHomogeneous(o.scale), IsometryToHomogeneous(o.position, o.rotation))

\* Scene::update_transform: the matrix patched onto the first part
SceneTransform(o) ==
    MatMul(IsometryToHomogeneous(o.position, o.rotation), ScaleToHomogeneous(o.scale))

\* the arguments of the process: --rescale, --offset and --size-large-limit
PlatterInit == [resize |-> Fl(2), offset |-> Vec3(1, 0, 0), size_large_limit |-> 4096]

\* the transform add_object computes from offset and rescale:
\* nalgebra_glm::scale(translation(offset), vec3(rescale, rescale, rescale))
RescaleTransform ==
    MatMul(IsometryToHomogeneous(PlatterInit.offset, QuatIdentity),
           ScaleToHomogeneous(<<PlatterInit.resize, PlatterInit.resize, PlatterInit.resize>>))

\* ------------------------------------------------------------------------
\* The scene registry (platter_state.rs PlatterState)
\* ------------------------------------------------------------------------
Reg == [items |-> items, root_to_item |-> root_to_item,
        next_item_id |-> next_item_id, source_map |-> source_map,
        next_entity |-> next_entity, next_asset |-> next_asset,
        hosted |-> hosted, remove_calls |-> remove_calls,
        entities |-> entities]

SetReg(r) ==
    /\ items' = r.items
    /\ root_to_item' = r.root_to_item
    /\ next_item_id' = r.next_item_id
    /\ source_map' = r.source_map
    /\ next_entity' = r.next_entity
    /\ next_asset' = r.next_asset
    /\ hosted' = r.hosted
    /\ remove_calls' = r.remove_calls
    /\ entities' = r.entities

MapRemove(m, k) == [x \in (DOMAIN m) \ {k} |-> m[x]]

\* impl Drop for Scene: remove_asset for every published asset id
RECURSIVE DropScene(_, _)
DropScene(r, published) ==
    IF published = <<>> THEN r
    ELSE LET a == Head(published)
         IN  DropScene([r EXCEPT !.hosted = @ \ {a},
                                 !.remove_calls = MapInsert(@, a,
                                     IF a \in DOMAIN @ THEN @[a] + 1 ELSE 1)],
                       Tail(published))

\* Scene::new on the result of import_obj::import_file: one entity and one
\* hosted asset per packed object.  src, tag, ev and assets (the asset ids
\* passed to add_asset while the scene was built) are history fields.
SceneNew(r, imp, p, source, ev) ==
    [parts |-> [i \in 1..imp.nparts |-> r.next_entity + i - 1],
     published |-> imp.published,
     position |-> Vec3Identity, rotation |-> QuatIdentity,
     scale |-> Scale3Identity,
     src |-> p, tag |-> source, ev |-> ev,
     assets |-> r.next_asset .. (r.next_asset + imp.nassets - 1),
     meshes |-> imp.meshes]

\* the context of an invocation: Option<InvokeIDType>
NoContext == [kind |-> "none", id |-> 0]
EntityCtx(id) == [kind |-> "entity", id |-> id]
TableCtx(id) == [kind |-> "table", id |-> id]

\* the method components setup_methods registers (PlatterState.methods)
Methods == {"set_position", "set_rotation", "set_scale"}

\* the mutable state of an entity the importer creates: only the
\* representation is set
EntityNew == [methods_list |-> NoneV, transform |-> NoneV]

\* ServerEntityStateUpdatable::patch of methods_list and transform
PatchEntity(ents, e, methods_list, transform) ==
    [ents EXCEPT ![e] = [methods_list |-> IF IsSome(methods_list) THEN methods_list
                                          ELSE @.methods_list,
                         transform |-> IF IsSome(transform) THEN transform
                                       ELSE @.transform]]

\* the condition of the block of add_object that patches the root entity
\* with the methods and the rescale transform: `if false`
PatchOnAdd == FALSE

\* add_object; the scene is dropped when the unwrap of the first part panics
add_object(r, o, source) ==
    LET id == r.next_item_id
        r1 == [r EXCEPT !.next_item_id = @ + 1]
    IN  IF o.parts = <<>>
        THEN [panic |-> TRUE, reg |-> DropScene(r1, o.published)]
        ELSE LET ent == o.parts[1]
                 r2 == [r1 EXCEPT !.root_to_item = MapInsert(@, ent, id),
                                  !.entities = IF PatchOnAdd
                                               THEN PatchEntity(@, ent, Some(Methods),
                                                                Some(RescaleTransform))
                                               ELSE @,
                                  !.items = MapInsert(@, id, o)]
             IN  [panic |-> FALSE,
                  reg |-> IF IsSome(source) /\ Unwrap(source) \in DOMAIN r2.source_map
                          THEN [r2 EXCEPT !.source_map[Unwrap(source)] = @ \cup {id}]
                          ELSE r2]

\* PlatterState::import_file: outcome "err", "panic" or "ok"
import_file(r, fs, p, source, order, ev) ==
    LET imp == ImportDispatch(fs, p, order)
    IN  IF imp.err THEN [outcome |-> "err", reg |-> r]
        ELSE IF imp.panic THEN [outcome |-> "panic", reg |-> r]
        ELSE LET o == SceneNew(r, imp, p, source, ev)
                 r1 == [r EXCEPT !.next_entity = @ + imp.nparts,
                                 !.entities = [e \in (DOMAIN @) \cup
                                                   (r.next_entity .. (r.next_entity + imp.nparts - 1))
                                               |-> IF e \in DOMAIN @ THEN @[e] ELSE EntityNew],
                                 !.next_asset = @ + imp.nassets,
                                 !.hosted = @ \cup (r.next_asset .. (r.next_asset + imp.nassets - 1))]
                 res == add_object(r1, o, source)
             IN  [outcome |-> IF res.panic THEN "panic" ELSE "ok", reg |-> res.reg]

remove_object_KeepsRoot(r, id) ==
    LET o == r.items[id]
    IN  DropScene([r EXCEPT !.entities = [e \in (DOMAIN @) \ {o.parts[n] : n \in DOMAIN o.parts} |-> @[e]],
                            !.items = MapRemove(@, id)],
                  o.published)

remove_object(r, id) ==
    LET o == r.items[id]
    IN  DropScene([r EXCEPT !.root_to_item = MapRemove(@, o.parts[1]),
                            !.entities = [e \in (DOMAIN @) \ {o.parts[n] : n \in DOMAIN o.parts} |-> @[e]],
                            !.items = MapRemove(@, id)],
                  o.published)

RECURSIVE RemoveAll(_, _)
RemoveAll(r, ids) ==
    IF ids = {} THEN r
    ELSE LET id == CHOOSE x \in ids : TRUE
         IN  RemoveAll(remove_object(r, id), ids \ {id})

clear_source(r, source) ==
    IF source \notin DOMAIN r.source_map THEN r
    ELSE RemoveAll([r EXCEPT !.source_map = MapRemove(@, source)], r.source_map[source])

\* the orders in which the importer may walk the objects of the file at p
ImportOrders(p) == DOMAIN ObjImportOf[FileName(p)]


\* ------------------------------------------------------------------------
\* Initial state (main.rs main): one initial command from the arguments
\* ------------------------------------------------------------------------
F(name) == <<"w", name>>

InitialFiles ==
    { {WatchDir},
      {WatchDir, F("cube.obj"), F("notes.txt")},
      {WatchDir, F("cube.obj"), F("zero.obj")},
      {WatchDir, F("nofaces.obj"), F("beyond.obj")} }

\* `platter file <name>` for an existing name, or `platter watch <dir>` with
\* its three flags; the content of the directory at start is read only
\* with --load-existing
InitialCommands(fs) ==
    {LoadFile(p, NoneV, 0) : p \in fs}
        \cup {WatchDirectory(Directory(lx, lo, od)) :
                lx \in (IF fs = {WatchDir} THEN {FALSE}
                        ELSE IF F("cube.obj") \in fs THEN {TRUE} ELSE {}),
                lo \in BOOLEAN, od \in BOOLEAN}

\* no file is being read by the OBJ importer
ObjIdle ==
    /\ ifile = <<>>
    /\ iread = 0
    /\ wfobj = WFObjectStateNew
    /\ all_objs = NoneV

\* no document is being converted by the glTF importer
GltfIdle ==
    /\ gltf = <<>>
    /\ gnext = 0
    /\ n_nodes = [n \in {} |-> 0]
    /\ gentities = <<>>
    /\ gparts = NoneV

ImportIdle ==
    /\ ObjIdle
    /\ GltfIdle

\* the state after the construction of the channels and of PlatterState
InitState ==
    /\ enqueued = cmdq
    /\ watcher_rx = <<>>
    /\ hpc = "recv"
    /\ cur = NoCmd
    /\ entries = <<>>
    /\ lock_holder = "none"
    /\ items = [i \in {} |-> 0]
    /\ root_to_item = [e \in {} |-> 0]
    /\ next_item_id = 0
    /\ source_map = [t \in {} |-> {}]
    /\ next_entity = 0
    /\ entities = [e \in {} |-> EntityNew]
    /\ next_asset = 0
    /\ hosted = {}
    /\ remove_calls = [a \in {} |-> 0]
    /\ next_tag = 1
    /\ wpc = "unspawned"
    /\ wcfg = NoCfg
    /\ latest_dir = NoneV
    /\ latest_tag = NoneV
    /\ subscribed = FALSE
    /\ fsq = <<>>
    /\ existing = <<>>
    /\ listing = NoneV
    /\ stop_sent = FALSE
    /\ todo = <<>>
    /\ todo_dir = NoneV
    /\ mpc = "idle"
    /\ minv = [method |-> "", ctx |-> NoContext, arg |-> <<>>, result |-> ""]
    /\ invokes = 0
    /\ arrivals = <<>>
    /\ handled = <<>>
    /\ emitted = <<>>
    /\ processed = <<>>
    /\ attempts = <<>>

InitRest ==
    /\ ImportIdle
    /\ InitState

Init ==
    /\ files \in InitialFiles
    /\ target_macos \in BOOLEAN
    /\ \E c \in InitialCommands(files) : cmdq = <<c>>
    /\ InitRest

\* ------------------------------------------------------------------------
\* The command handler (main.rs command_handler, platter_state.rs
\* handle_command)
\* ------------------------------------------------------------------------
\* mpsc::Receiver::recv returns the oldest message
RecvIndex(q) == 1

\* a lock that does not exclude anybody
MutexFree_NoExclusion(holder) == TRUE

\* std::sync::Mutex::lock succeeds only while nobody holds the mutex
MutexFree(holder) == holder = "none"

RemoveAt(q, i) == SubSeq(q, 1, i - 1) \o SubSeq(q, i + 1, Len(q))

HandlerRecv ==
    /\ hpc = "recv"
    /\ cmdq /= <<>>
    /\ cur' = cmdq[RecvIndex(cmdq)]
    /\ cmdq' = RemoveAt(cmdq, RecvIndex(cmdq))
    /\ processed' = Append(processed, cmdq[RecvIndex(cmdq)])
    /\ attempts' = <<>>
    /\ hpc' = "lock"
    /\ UNCHANGED <<entries, lock_holder, watcher_rx, enqueued>>
    /\ UNCHANGED <<registryVars, watcherVars, methodVars, envVars, importVars, fsq>>

HandlerLock ==
    /\ hpc = "lock"
    /\ MutexFree(lock_holder)
    /\ lock_holder' = "handler"
    /\ hpc' = "run"
    /\ UNCHANGED <<cur, entries, processed, attempts, cmdq, watcher_rx, enqueued>>
    /\ UNCHANGED <<registryVars, watcherVars, methodVars, envVars, importVars, fsq>>

\* handle_command returns: its MutexGuard is dropped and command_handler
\* waits for the next command
Return == hpc' = "recv" /\ lock_holder' = "none"

\* one call of PlatterState::import_file from the handler; a panic unwinds
\* the handler task, which releases (and poisons) the mutex
ImportStep(p, last) ==
    \E order \in ImportOrders(p) :
        LET res == import_file(Reg, files, p, cur.tag, order, cur.ev)
        IN  /\ SetReg(res.reg)
            /\ attempts' = Append(attempts,
                    [path |-> p, outcome |-> res.outcome,
                     id_before |-> next_item_id, id_after |-> res.reg.next_item_id])
            /\ IF res.outcome = "panic"
               THEN hpc' = "panicked" /\ lock_holder' = "none"
               ELSE IF last THEN Return
               ELSE hpc' = "dir" /\ lock_holder' = lock_holder

\* handle_command, LoadFile of a directory: import_dir reads the directory
HandlerLoadDir ==
    /\ hpc = "run"
    /\ cur.op = "LoadFile"
    /\ IsDir(files, cur.path)
    /\ \E order \in SeqsOf(ReadDir(files, cur.path)) :
          /\ entries' = order
          /\ IF order = <<>> THEN Return
             ELSE hpc' = "dir" /\ lock_holder' = lock_holder
    /\ UNCHANGED <<cur, processed, attempts, cmdq, watcher_rx, enqueued>>
    /\ UNCHANGED <<registryVars, watcherVars, methodVars, envVars, importVars, fsq>>

\* handle_command, LoadFile of anything else: a file is imported, a path
\* that is neither a file nor a directory is ignored
HandlerLoadFile ==
    /\ hpc = "run"
    /\ cur.op = "LoadFile"
    /\ ~IsDir(files, cur.path)
    /\ IF IsFile(files, cur.path)
       THEN ImportStep(cur.path, TRUE)
       ELSE Return /\ UNCHANGED <<registryVars, attempts>>
    /\ UNCHANGED <<cur, entries, processed, cmdq, watcher_rx, enqueued>>
    /\ UNCHANGED <<watcherVars, methodVars, envVars, importVars, fsq>>

\* handle_command, WatchDirectory: the Directory is forwarded to the task
\* that spawns the watchers
HandlerWatchDirectory ==
    /\ hpc = "run"
    /\ cur.op = "WatchDirectory"
    /\ watcher_rx' = IF cur.cfg.dir \in files
                     THEN Append(watcher_rx, cur.cfg) ELSE watcher_rx
    /\ Return
    /\ UNCHANGED <<cur, entries, processed, attempts, cmdq, enqueued>>
    /\ UNCHANGED <<registryVars, watcherVars, methodVars, envVars, importVars, fsq>>

\* handle_command, ClearTag
HandlerClearTag ==
    /\ hpc = "run"
    /\ cur.op = "ClearTag"
    /\ SetReg(clear_source(Reg, Unwrap(cur.tag)))
    /\ Return
    /\ UNCHANGED <<cur, entries, processed, attempts, cmdq, watcher_rx, enqueued>>
    /\ UNCHANGED <<watcherVars, methodVars, envVars, importVars, fsq>>

\* one iteration of the loop of import_dir
HandlerImportEntry ==
    /\ hpc = "dir"
    /\ entries /= <<>>
    /\ ImportStep(Head(entries), Len(entries) = 1)
    /\ entries' = Tail(entries)
    /\ UNCHANGED <<cur, processed, cmdq, watcher_rx, enqueued>>
    /\ UNCHANGED <<watcherVars, methodVars, envVars, importVars, fsq>>

\* ------------------------------------------------------------------------
\* The directory watcher (dir_watcher.rs)
\* ------------------------------------------------------------------------
Event(kind, p) == [kind |-> kind, path |-> p]

\* handle_new_file without the ClearTag of the latest-only policy
handle_new_file_NoClear(p, source_id, dir, latest, ev) ==
    IF dir.organize_by_dir
    THEN IF ~IsSome(latest) THEN <<>>
         ELSE IF ~StripPrefixOk(p, Unwrap(latest)) THEN <<>>
         ELSE <<LoadFile(p, Some(source_id), ev)>>
    ELSE <<LoadFile(p, Some(source_id), ev)>>

\* handle_new_file without the check of the latest directory
handle_new_file_NoPrefixCheck(p, source_id, dir, latest, ev) ==
    IF dir.organize_by_dir
    THEN IF ~IsSome(latest) THEN <<>>
         ELSE <<LoadFile(p, Some(source_id), ev)>>
    ELSE (IF dir.latest_only THEN <<ClearTag(source_id, ev)>> ELSE <<>>)
            \o <<LoadFile(p, Some(source_id), ev)>>

\* the commands handle_new_file sends for path p, in order
handle_new_file(p, source_id, dir, latest, ev) ==
    IF dir.organize_by_dir
    THEN IF ~IsSome(latest) THEN <<>>
         ELSE IF ~StripPrefixOk(p, Unwrap(latest)) THEN <<>>
         ELSE <<LoadFile(p, Some(source_id), ev)>>
    ELSE (IF dir.latest_only THEN <<ClearTag(source_id, ev)>> ELSE <<>>)
            \o <<LoadFile(p, Some(source_id), ev)>>

handle_file_closed(p, source_id, dir, latest, ev) ==
    handle_new_file(p, source_id, dir, latest, ev)

\* handle_file_created with its body compiled for every target
handle_file_created_AnyTarget(p, source_id, dir, latest, ev, macos) ==
    handle_new_file(p, source_id, dir, latest, ev)

\* the body of handle_file_created is compiled for macOS only
handle_file_created(p, source_id, dir, latest, ev, macos) ==
    IF macos THEN handle_new_file(p, source_id, dir, latest, ev) ELSE <<>>

\* the Folder arm taken for every organize_by_dir watcher
FolderArmTaken_AnyLatestOnly(dir) == dir.organize_by_dir

\* the Folder arm of the event loop sets latest_dir under this condition
FolderArmTaken(dir) == dir.organize_by_dir /\ dir.latest_only

\* the main.rs task that spawns a watcher per forwarded Directory; the
\* watcher runs up to its first await
WatcherSpawn ==
    /\ wpc = "unspawned"
    /\ watcher_rx /= <<>>
    /\ wcfg' = Head(watcher_rx)
    /\ watcher_rx' = Tail(watcher_rx)
    /\ latest_dir' = NoneV
    /\ latest_tag' = Some(next_tag)
    /\ next_tag' = next_tag + 1
    /\ IF Head(watcher_rx).load_existing
       THEN \/ \E order \in SeqsOf(ReadDir(files, Head(watcher_rx).dir)) :
                \E bad \in SUBSET (ReadDir(files, Head(watcher_rx).dir) \cap FlakyEntries) :
                   /\ existing' = [i \in 1..Len(order) |->
                                     [path |-> order[i], ok |-> order[i] \notin bad]]
                   /\ listing' = Some(existing')
            \/ /\ existing' = <<>>         \* fs::read_dir failed
               /\ listing' = NoneV
       ELSE existing' = <<>> /\ listing' = NoneV
    /\ wpc' = "load_existing"
    /\ UNCHANGED <<subscribed, todo, todo_dir, handled, emitted, fsq, cmdq, enqueued>>
    /\ UNCHANGED <<handlerVars, lock_holder, registryVars, methodVars, envVars, importVars>>

\* tx.send(..).await.unwrap(): waits while the channel is full and panics
\* when the receiver is gone, which is the case once the handler task died
SendCmd(c, okpc) ==
    IF hpc = "panicked"
    THEN /\ wpc' = "panicked"
         /\ UNCHANGED <<cmdq, enqueued, emitted>>
    ELSE /\ Len(cmdq) < ChannelCap
         /\ cmdq' = Append(cmdq, c)
         /\ enqueued' = Append(enqueued, c)
         /\ emitted' = Append(emitted, c)
         /\ wpc' = okpc

\* every directory entry taken as readable
EntryOk_Always(e) == TRUE

\* `let Ok(path) = path else { continue }`
EntryOk(e) == e.ok

\* load_existing: one LoadFile per directory entry that could be read
WatcherLoadExisting ==
    /\ wpc = "load_existing"
    /\ existing /= <<>>
    /\ IF EntryOk(Head(existing))
       THEN SendCmd(LoadFile(Head(existing).path, latest_tag, 0), "load_existing")
       ELSE UNCHANGED <<wpc, cmdq, enqueued, emitted>>
    /\ existing' = Tail(existing)
    /\ UNCHANGED <<wcfg, latest_dir, latest_tag, subscribed, listing, todo, todo_dir,
                   next_tag, handled, fsq, watcher_rx>>
    /\ UNCHANGED <<handlerVars, lock_holder, registryVars, methodVars, envVars, importVars>>

\* watcher.watch(dir, Recursive): notifications are delivered from here on
WatcherWatch ==
    /\ wpc = "load_existing"
    /\ existing = <<>>
    /\ subscribed' = TRUE
    /\ wpc' = "select"
    /\ UNCHANGED <<wcfg, latest_dir, latest_tag, existing, listing, todo, todo_dir,
                   next_tag, handled, emitted, fsq, cmdq, watcher_rx, enqueued>>
    /\ UNCHANGED <<handlerVars, lock_holder, registryVars, methodVars, envVars, importVars>>

\* the rx.recv arm of the select: one notification is matched on its kind
WatcherRecv ==
    /\ wpc = "select"
    /\ fsq /= <<>>
    /\ LET e == Head(fsq)
           n == Len(handled) + 1
           cmds == CASE e.kind = "Close" ->
                          handle_file_closed(e.path, Unwrap(latest_tag), wcfg, latest_dir, n)
                     [] e.kind = "CreateFile" ->
                          handle_file_created(e.path, Unwrap(latest_tag), wcfg, latest_dir, n,
                                              target_macos)
                     [] e.kind = "CreateFolder" ->
                          IF FolderArmTaken(wcfg)
                          THEN <<ClearTag(Unwrap(latest_tag), n)>> ELSE <<>>
                     [] OTHER -> <<>>
       IN  /\ todo' = cmds
           /\ todo_dir' = IF e.kind = "CreateFolder" /\ FolderArmTaken(wcfg)
                          THEN Some(e.path) ELSE NoneV
           /\ wpc' = IF cmds = <<>> THEN "select" ELSE "sending"
           /\ handled' = Append(handled, [ev |-> e, latest |-> latest_dir])
    /\ fsq' = Tail(fsq)
    /\ UNCHANGED <<wcfg, latest_dir, latest_tag, subscribed, existing, listing, next_tag,
                   emitted, cmdq, watcher_rx, enqueued>>
    /\ UNCHANGED <<handlerVars, lock_holder, registryVars, methodVars, envVars, importVars>>

\* the next send of the running event arm; the Folder arm assigns
\* latest_dir after its send
WatcherSend ==
    /\ wpc = "sending"
    /\ SendCmd(Head(todo), IF Len(todo) = 1 THEN "select" ELSE "sending")
    /\ IF hpc = "panicked"
       THEN UNCHANGED <<todo, todo_dir, latest_dir>>
       ELSE /\ todo' = Tail(todo)
            /\ IF Len(todo) = 1 /\ IsSome(todo_dir)
               THEN latest_dir' = todo_dir /\ todo_dir' = NoneV
               ELSE UNCHANGED <<latest_dir, todo_dir>>
    /\ UNCHANGED <<wcfg, latest_tag, subscribed, existing, listing, next_tag, handled,
                   fsq, watcher_rx>>
    /\ UNCHANGED <<handlerVars, lock_holder, registryVars, methodVars, envVars, importVars>>


\* ------------------------------------------------------------------------
\* The filesystem and its notifier
\* ------------------------------------------------------------------------
ArrivalFiles ==
    {F("cube.obj"), F("monkey.obj"),
     <<"w", "d1", "cube.obj">>, <<"w", "d2", "cube.obj">>}

Parent(p) == SubSeq(p, 1, Len(p) - 1)

\* the notifications one file copy produces: the close of the written file
\* is not reported on macOS (dir_watcher.rs, handle_file_created)
CopyEvents(p, macos) ==
    IF macos THEN <<Event("CreateFile", p), Event("Modify", p)>>
    ELSE <<Event("CreateFile", p), Event("Modify", p), Event("Close", p)>>

\* a file is copied into the watched tree
FileArrives ==
    /\ Len(arrivals) < MaxArrivals
    /\ wpc /= "unspawned"
    /\ Len(fsq) <= MaxBacklog
    /\ \E p \in ArrivalFiles \ files :
          /\ Parent(p) \in files
          /\ files' = files \cup {p}
          /\ fsq' = IF subscribed THEN fsq \o CopyEvents(p, target_macos) ELSE fsq
          /\ arrivals' = Append(arrivals, [kind |-> "file", path |-> p, live |-> subscribed])
    /\ UNCHANGED <<target_macos, stop_sent, cmdq, watcher_rx, enqueued, lock_holder>>
    /\ UNCHANGED <<handlerVars, registryVars, watcherVars, methodVars, importVars>>

\* a subdirectory is created in the watched directory
FolderCreated ==
    /\ Len(arrivals) < MaxArrivals
    /\ wpc /= "unspawned"
    /\ Len(fsq) <= MaxBacklog
    /\ \E d \in {IF D1 \in files THEN D2 ELSE D1} \ files :
          /\ files' = files \cup {d}
          /\ fsq' = IF subscribed THEN Append(fsq, Event("CreateFolder", d)) ELSE fsq
          /\ arrivals' = Append(arrivals, [kind |-> "folder", path |-> d, live |-> subscribed])
    /\ UNCHANGED <<target_macos, stop_sent, cmdq, watcher_rx, enqueued, lock_holder>>
    /\ UNCHANGED <<handlerVars, registryVars, watcherVars, methodVars, importVars>>

\* ------------------------------------------------------------------------
\* Remote method invocations (methods.rs)
\* ------------------------------------------------------------------------
\* the entity an invocation names: the first entity ever created, which is
\* the root of the first scene, or a later one
CtxEntities == 0..1
Contexts == {EntityCtx(e) : e \in CtxEntities}
\* the argument a client sends to each method: [f32; 3] or [f32; 4]
ArgValues ==
    [set_position |-> {Vec3(3, 3, 3)},
     set_rotation |-> {<<Zero, Zero, One, Zero>>},
     set_scale |-> {Vec3(2, 2, 2)}]

\* a client invokes one of the methods: the invocation waits for the lock
Invoke(limit) ==
    /\ mpc = "idle"
    /\ invokes < limit
    /\ invokes' = invokes + 1
    /\ mpc' = "lock"
    /\ UNCHANGED <<minv, cmdq, watcher_rx, enqueued, lock_holder, fsq>>
    /\ UNCHANGED <<handlerVars, registryVars, watcherVars, envVars, importVars>>

MethodInvoke == Invoke(MaxInvokes)

\* the method function locks the PlatterState; when the mutex is poisoned
\* the invocation either fails or goes on with the recovered state
MethodLock ==
    /\ mpc = "lock"
    /\ MutexFree(lock_holder)
    /\ \/ /\ lock_holder' = "method"
          /\ mpc' = "body"
       \/ /\ hpc = "panicked"
          /\ lock_holder' = lock_holder
          /\ mpc' = "idle"
    /\ UNCHANGED <<minv, invokes, cmdq, watcher_rx, enqueued, fsq>>
    /\ UNCHANGED <<handlerVars, registryVars, watcherVars, envVars, importVars>>

\* Result<_, MethodException>: err is "none" or the exception
MethodOk(v) == [err |-> "none", val |-> v]
MethodErr(e) == [err |-> e, val |-> 0]

\* get_entity with every context taken for an entity id
get_entity_AnyKind(context, r) ==
    IF context.id \in DOMAIN r.entities
    THEN MethodOk(context.id) ELSE MethodErr("method_not_found")

\* get_entity: the context must be an entity id the server state resolves
get_entity(context, r) ==
    IF context.kind = "entity"
    THEN IF context.id \in DOMAIN r.entities
         THEN MethodOk(context.id) ELSE MethodErr("method_not_found")
    ELSE MethodErr("method_not_found")

\* PlatterState::find_id: root entity -> scene id
find_id(r, ent) ==
    IF ent \in DOMAIN r.root_to_item THEN Some(r.root_to_item[ent]) ELSE NoneV

\* PlatterState::get_object_mut: scene id -> scene
get_object_mut(r, id) == IF id \in DOMAIN r.items THEN Some(id) ELSE NoneV

\* get_object: context -> entity -> scene id -> scene
get_object(r, context) ==
    LET reference == get_entity(context, r)
    IN  IF reference.err /= "none" THEN reference
        ELSE LET id == find_id(r, reference.val)
             IN  IF IsSome(id) /\ IsSome(get_object_mut(r, Unwrap(id)))
                 THEN MethodOk(Unwrap(id)) ELSE MethodErr("internal_error")

\* Sanitize for [T; N]: NaN becomes T::default()
Sanitize(a) == [n \in DOMAIN a |-> IF IsNaN(a[n]) THEN Zero ELSE a[n]]

\* Scene::update_transform: patch the transform of the first part
update_transform(r, id) ==
    LET o == r.items[id]
    IN  IF o.parts /= <<>>
        THEN [r EXCEPT !.entities = PatchEntity(@, o.parts[1], NoneV, Some(SceneTransform(o)))]
        ELSE r

\* Scene::set_position, Scene::set_rotation, Scene::set_scale
Scene_set_position(r, id, p) ==
    update_transform([r EXCEPT !.items[id].position = <<p[1], p[2], p[3]>>], id)
Scene_set_rotation(r, id, q) ==
    update_transform([r EXCEPT !.items[id].rotation = UnitFromQuaternion(q)], id)
Scene_set_scale(r, id, sc) ==
    update_transform([r EXCEPT !.items[id].scale = <<sc[1], sc[2], sc[3]>>], id)

\* the method functions: the exception or "none", and the state afterwards
set_position(r, context, position) ==
    LET obj == get_object(r, context)
    IN  IF obj.err /= "none" THEN [result |-> obj.err, reg |-> r]
        ELSE [result |-> "none", reg |-> Scene_set_position(r, obj.val, Sanitize(position))]

set_rotation(r, context, quaternion) ==
    LET obj == get_object(r, context)
    IN  IF obj.err /= "none" THEN [result |-> obj.err, reg |-> r]
        ELSE LET q == Sanitize(quaternion)
             IN  [result |-> "none",
                  reg |-> Scene_set_rotation(r, obj.val, Quat(q[4], q[1], q[2], q[3]))]

set_scale(r, context, scale) ==
    LET obj == get_object(r, context)
    IN  IF obj.err /= "none" THEN [result |-> obj.err, reg |-> r]
        ELSE [result |-> "none", reg |-> Scene_set_scale(r, obj.val, Sanitize(scale))]

\* the body of set_position / set_rotation / set_scale for the method,
\* context and argument of the invocation; the lock is released when the
\* body returns
Body(ctxs, args) ==
    /\ mpc = "body"
    /\ \E m \in Methods : \E c \in ctxs : \E a \in args[m] :
          LET res == CASE m = "set_position" -> set_position(Reg, c, a)
                       [] m = "set_rotation" -> set_rotation(Reg, c, a)
                       [] OTHER -> set_scale(Reg, c, a)
          IN  /\ minv' = [method |-> m, ctx |-> c, arg |-> a, result |-> res.result]
              /\ SetReg(res.reg)
    /\ mpc' = "idle"
    /\ lock_holder' = "none"
    /\ UNCHANGED <<invokes, cmdq, watcher_rx, enqueued, fsq>>
    /\ UNCHANGED <<handlerVars, watcherVars, envVars, importVars>>

MethodBody == Body(Contexts, ArgValues)

\* handler, watcher and filesystem
Next ==
    \/ HandlerRecv
    \/ HandlerLock
    \/ HandlerLoadDir
    \/ HandlerLoadFile
    \/ HandlerWatchDirectory
    \/ HandlerClearTag
    \/ HandlerImportEntry
    \/ WatcherSpawn
    \/ WatcherLoadExisting
    \/ WatcherWatch
    \/ WatcherRecv
    \/ WatcherSend
    \/ FileArrives
    \/ FolderCreated

Spec == Init /\ [][Next]_vars

\* the same with remote method invocations, for a directory load and for a
\* latest-only watcher
ConcFiles == {WatchDir, F("cube.obj"), D1, <<"w", "d1", "cube.obj">>, <<"w", "d1", "notes.txt">>}

InitConc ==
    /\ files = ConcFiles
    /\ target_macos = FALSE
    /\ \E c \in {LoadFile(WatchDir, NoneV, 0), WatchDirectory(Directory(TRUE, TRUE, FALSE))} :
          cmdq = <<c>>
    /\ InitRest

NextConc ==
    \/ Next
    \/ MethodInvoke
    \/ MethodLock
    \/ MethodBody

SpecConc == InitConc /\ [][NextConc]_vars

\* ------------------------------------------------------------------------
\* The scenario of test_exclusive_dir_watch: folder d1, two files in d1,
\* folder d2, two files in d2, for an organize_by_dir watcher
\* ------------------------------------------------------------------------
TestDirScript ==
    << [kind |-> "folder", path |-> D1],
       [kind |-> "file", path |-> <<"w", "d1", "cube.obj">>],
       [kind |-> "file", path |-> <<"w", "d1", "monkey.obj">>],
       [kind |-> "folder", path |-> D2],
       [kind |-> "file", path |-> <<"w", "d2", "cube.obj">>],
       [kind |-> "file", path |-> <<"w", "d2", "monkey.obj">>] >>

\* the next create_dir / copy_asset of the test
TestDirArrival ==
    /\ Len(arrivals) < Len(TestDirScript)
    /\ wpc /= "unspawned"
    /\ Len(fsq) <= MaxBacklog
    /\ LET a == TestDirScript[Len(arrivals) + 1]
       IN  /\ files' = files \cup {a.path}
           /\ fsq' = IF ~subscribed THEN fsq
                     ELSE IF a.kind = "folder"
                          THEN Append(fsq, Event("CreateFolder", a.path))
                          ELSE fsq \o CopyEvents(a.path, target_macos)
           /\ arrivals' = Append(arrivals, [kind |-> a.kind, path |-> a.path,
                                            live |-> subscribed])
    /\ UNCHANGED <<target_macos, stop_sent, cmdq, watcher_rx, enqueued, lock_holder>>
    /\ UNCHANGED <<handlerVars, registryVars, watcherVars, methodVars, importVars>>

InitDirs ==
    /\ files = {WatchDir}
    /\ target_macos \in BOOLEAN
    /\ \E lo \in BOOLEAN : cmdq = <<WatchDirectory(Directory(FALSE, lo, TRUE))>>
    /\ InitRest

NextDirs ==
    \/ HandlerRecv
    \/ HandlerLock
    \/ HandlerLoadFile
    \/ HandlerWatchDirectory
    \/ HandlerClearTag
    \/ WatcherSpawn
    \/ WatcherWatch
    \/ WatcherRecv
    \/ WatcherSend
    \/ TestDirArrival

SpecDirs == InitDirs /\ [][NextDirs]_vars

\* ------------------------------------------------------------------------
\* Stopping a watcher: the holder of stop_tx broadcasts the stop signal, as
\* the tests of dir_watcher.rs do once they have seen their commands
\* ------------------------------------------------------------------------
\* stop_tx.send(true) while the watcher holds its subscribed receiver
StopBroadcast ==
    /\ ~stop_sent
    /\ wpc \in {"load_existing", "select", "sending"}
    /\ stop_sent' = TRUE
    /\ UNCHANGED <<files, target_macos, arrivals, cmdq, watcher_rx, enqueued,
                   lock_holder, fsq>>
    /\ UNCHANGED <<handlerVars, registryVars, watcherVars, methodVars, importVars>>

\* the stopper.recv arm of the select: unwatch and return
WatcherStop ==
    /\ wpc = "select"
    /\ stop_sent
    /\ wpc' = "stopped"
    /\ subscribed' = FALSE
    /\ UNCHANGED <<wcfg, latest_dir, latest_tag, existing, listing, todo, todo_dir,
                   next_tag, handled, emitted, fsq, cmdq, watcher_rx, enqueued>>
    /\ UNCHANGED <<handlerVars, lock_holder, registryVars, methodVars, envVars, importVars>>

\* a latest-only watcher on an empty directory, or with load_existing on a
\* directory that holds a good and a malformed file
InitStop ==
    /\ files \in {{WatchDir}, {WatchDir, F("cube.obj"), F("zero.obj")}}
    /\ target_macos = FALSE
    /\ cmdq = <<WatchDirectory(Directory(files /= {WatchDir}, TRUE, FALSE))>>
    /\ InitRest

HandlerStep ==
    \/ HandlerRecv
    \/ HandlerLock
    \/ HandlerLoadFile
    \/ HandlerWatchDirectory
    \/ HandlerClearTag

WatcherStep ==
    \/ WatcherSpawn
    \/ WatcherLoadExisting
    \/ WatcherWatch
    \/ WatcherRecv
    \/ WatcherSend

NextStop ==
    \/ HandlerStep
    \/ WatcherStep
    \/ WatcherStop
    \/ FileArrives
    \/ StopBroadcast

\* the tokio runtime runs every task that can make progress, and select!
\* picks among its ready branches at random
FairStop ==
    /\ WF_vars(HandlerStep)
    /\ WF_vars(WatcherStep)
    /\ SF_vars(WatcherStop)

SpecStop == InitStop /\ [][NextStop]_vars /\ FairStop


\* ------------------------------------------------------------------------
\* Vocabulary of the properties
\* ------------------------------------------------------------------------
\* a notification that makes the watcher call handle_new_file
NewFileEvent(e) == e.kind = "Close" \/ (e.kind = "CreateFile" /\ target_macos)

\* the commands the watcher has sent for its n-th notification
CmdsOf(n) == LET FromN(c) == c.ev = n IN SelectSeq(emitted, FromN)

\* the watcher has finished the arm of its n-th notification
EventDone(n) == n < Len(handled) \/ (n = Len(handled) /\ wpc = "select")

\* p lies in directory d
Under(p, d) == Len(d) <= Len(p) /\ \A i \in 1..Len(d) : p[i] = d[i]

\* a command without its history field
Plain(c) == [op |-> c.op, path |-> c.path, tag |-> c.tag]
PlainSeq(cs) == [i \in 1..Len(cs) |-> Plain(cs[i])]

\* every walk of the importer over the file at p gives a scene with a root
Importable(p) ==
    \A order \in ImportOrders(p) :
        LET imp == ImportDispatch(files, p, order)
        IN  ~imp.err /\ ~imp.panic /\ imp.nparts > 0

\* the file at p has a face corner whose index is outside its list
Malformed(p) ==
    /\ FileExt(FileName(p)) = "obj"
    /\ \E order \in ImportOrders(p) : ObjImport(FileLines(FileName(p)), order).panic

\* the handler has finished every command the watcher sent for notification n
HandledAll(n) ==
    /\ EventDone(n)
    /\ \A k \in 1..Len(cmdq) : cmdq[k].ev /= n
    /\ ~(hpc \in {"lock", "run", "dir"} /\ cur.ev = n)
    /\ hpc /= "panicked"

ScenesOfEvent(n) == {id \in DOMAIN items : items[id].ev = n}

\* C1: with latest_only (and not organize_by_dir), when two files f1 then f2
\* arrive and both import, then once the handler has processed every command
\* sent for f2 the registry holds the scene of f2 and no scene of f1.
C1_LatestOnlyKeepsOnlyLatest ==
    (wpc /= "unspawned" /\ wcfg.latest_only /\ ~wcfg.organize_by_dir) =>
        \A i, j \in 1..Len(handled) :
            ( /\ i < j
              /\ NewFileEvent(handled[i].ev) /\ NewFileEvent(handled[j].ev)
              /\ handled[i].ev.path /= handled[j].ev.path
              /\ Importable(handled[i].ev.path) /\ Importable(handled[j].ev.path)
              /\ HandledAll(j) )
            => (ScenesOfEvent(j) /= {} /\ ScenesOfEvent(i) = {})

\* C2: after ClearTag(t) is processed no scene loaded under t remains in the
\* registry, remove_asset has been called exactly once for every published
\* asset of those scenes, and the scene-id set of t is empty.
C2_ClearTagRemovesScenes ==
    [][(hpc = "run" /\ cur.op = "ClearTag" /\ hpc' = "recv") =>
        LET t == cur.tag
        IN  /\ \A id \in DOMAIN items' : items'[id].tag /= t
            /\ \A id \in DOMAIN items : items[id].tag = t =>
                  \A k \in 1..Len(items[id].published) :
                      /\ items[id].published[k] \in DOMAIN remove_calls'
                      /\ remove_calls'[items[id].published[k]] = 1
            /\ (Unwrap(t) \in DOMAIN source_map' => source_map'[Unwrap(t)] = {})]_vars

\* C3: after a successful LoadFile(p, Some(t)) the newly allocated scene id
\* is a member of the scene-id set recorded for t.
C3_LoadRecordsSceneUnderTag ==
    [][\A id \in (DOMAIN items') \ (DOMAIN items) :
            IsSome(items'[id].tag) =>
                /\ Unwrap(items'[id].tag) \in DOMAIN source_map'
                /\ id \in source_map'[Unwrap(items'[id].tag)]]_vars

\* C4: processing WatchDirectory for an existing directory registers a new
\* tag with an empty scene-id set, and the watcher spawned for it uses a
\* registered tag.
C4_WatchRegistersTag ==
    [][ /\ (hpc = "run" /\ cur.op = "WatchDirectory" /\ cur.cfg.dir \in files
              /\ hpc' = "recv")
            => \E t \in (DOMAIN source_map') \ (DOMAIN source_map) : source_map'[t] = {}
        /\ (wpc = "unspawned" /\ wpc' /= "unspawned")
            => Unwrap(latest_tag') \in DOMAIN source_map' ]_vars


\* the commands the watcher has sent for live notifications
LiveCmds == LET Live(c) == c.ev > 0 IN SelectSeq(emitted, Live)

\* the filesystem changes so far are two file copies, both seen by the
\* notifier, and the watcher has finished with all their notifications
TwoFilesArrived ==
    /\ Len(arrivals) = 2
    /\ \A k \in 1..2 : arrivals[k].kind = "file" /\ arrivals[k].live
    /\ wpc = "select" /\ fsq = <<>>

\* C5: with latest_only and not organize_by_dir, every LoadFile sent for a
\* live new-file notification is immediately preceded in the watcher's
\* output by a ClearTag, all commands of the watcher carry its one tag, and
\* for two files arriving in sequence the watcher sends exactly
\* ClearTag(t), LoadFile(f1,t), ClearTag(t), LoadFile(f2,t).
C5_ClearPrecedesEachLoad ==
    (wpc /= "unspawned" /\ wcfg.latest_only /\ ~wcfg.organize_by_dir) =>
        /\ \A k \in 1..Len(emitted) : emitted[k].tag = latest_tag
        /\ \A k \in 1..Len(emitted) :
              (emitted[k].op = "LoadFile" /\ emitted[k].ev > 0) =>
                  /\ k > 1
                  /\ emitted[k - 1].op = "ClearTag"
                  /\ emitted[k - 1].tag = emitted[k].tag
        /\ TwoFilesArrived =>
              PlainSeq(LiveCmds) =
                  << Plain(ClearTag(Unwrap(latest_tag), 0)),
                     Plain(LoadFile(arrivals[1].path, latest_tag, 0)),
                     Plain(ClearTag(Unwrap(latest_tag), 0)),
                     Plain(LoadFile(arrivals[2].path, latest_tag, 0)) >>

C5_Witness ==
    /\ wpc /= "unspawned" /\ wcfg.latest_only /\ ~wcfg.organize_by_dir
    /\ TwoFilesArrived
    /\ Len(LiveCmds) = 4
    /\ arrivals[1].path /= arrivals[2].path


\* the handler is between the start and the end of a command's work
InCommand == hpc \in {"run", "dir"}

\* C6: commands are applied one at a time in the order in which they were
\* enqueued: the handler takes the next command only after the previous one
\* is finished, and a set_* invocation neither reads nor changes the
\* registry while a command is being applied.
C6_CommandsSerialized ==
    /\ [](/\ ~(InCommand /\ mpc = "body")
          /\ processed = SubSeq(enqueued, 1, Len(processed)))
    /\ [][ /\ (processed' /= processed) => (hpc = "recv" /\ ~InCommand')
           /\ (Reg' /= Reg) =>
                 \/ (InCommand /\ mpc /= "body" /\ mpc' = mpc)
                 \/ (mpc = "body" /\ ~InCommand /\ hpc' = hpc) ]_vars

\* a set_* invocation waits for the lock while the handler is in the middle
\* of a directory load, after an earlier command was finished
C6_Witness ==
    /\ hpc = "dir" /\ attempts /= <<>> /\ entries /= <<>>
    /\ mpc = "lock"
    /\ lock_holder = "handler"
    /\ Len(processed) >= 2

\* C7: no file content makes the handling of LoadFile panic, and no scene is
\* published for a malformed file.
C7_LoadNeverPanics ==
    /\ hpc /= "panicked"
    /\ \A id \in DOMAIN items : ~Malformed(items[id].src)

\* the handler has finished, or died in, the load of a directory
DirLoadEnded ==
    /\ cur.op = "LoadFile"
    /\ cur.path \in Dirs
    /\ hpc \in {"recv", "panicked"}

\* C8: when LoadFile names a directory every entry is attempted; an entry
\* whose import fails adds no scene and consumes no scene id, and afterwards
\* the registry holds exactly one new scene per entry that imported.
C8_DirLoadImportsEveryEntry ==
    DirLoadEnded =>
        /\ entries = <<>>
        /\ \A k \in 1..Len(attempts) :
              IF attempts[k].outcome = "ok"
              THEN /\ attempts[k].id_after = attempts[k].id_before + 1
                   /\ attempts[k].id_before \in DOMAIN items
                   /\ items[attempts[k].id_before].src = attempts[k].path
              ELSE attempts[k].id_after = attempts[k].id_before

\* C9: with organize_by_dir and latest_only, a new-file notification whose
\* path is not under the current subdirectory, or that comes before any
\* subdirectory was created, sends no command; one whose path is under the
\* current subdirectory sends exactly one LoadFile with the watcher's tag.
C9_OnlyCurrentSubdirLoads ==
    (wpc /= "unspawned" /\ wcfg.organize_by_dir /\ wcfg.latest_only) =>
        \A n \in 1..Len(handled) :
            NewFileEvent(handled[n].ev) =>
                IF IsSome(handled[n].latest) /\ Under(handled[n].ev.path, Unwrap(handled[n].latest))
                THEN EventDone(n) =>
                        PlainSeq(CmdsOf(n)) = <<Plain(LoadFile(handled[n].ev.path, latest_tag, 0))>>
                ELSE CmdsOf(n) = <<>>

\* one new file outside the current subdirectory and one inside it
C9_Witness ==
    /\ wpc /= "unspawned" /\ wcfg.organize_by_dir /\ wcfg.latest_only
    /\ \E n \in 1..Len(handled) :
          /\ NewFileEvent(handled[n].ev)
          /\ IsSome(handled[n].latest)
          /\ ~Under(handled[n].ev.path, Unwrap(handled[n].latest))
          /\ EventDone(n)
    /\ \E n \in 1..Len(handled) :
          /\ NewFileEvent(handled[n].ev)
          /\ IsSome(handled[n].latest)
          /\ Under(handled[n].ev.path, Unwrap(handled[n].latest))
          /\ Len(CmdsOf(n)) = 1

\* C10: with organize_by_dir, for either value of latest_only, a
\* folder-creation notification for D makes D the current subdirectory, and
\* a later new-file notification for a path under D sends a LoadFile.
C10_FolderBecomesCurrent ==
    (wpc /= "unspawned" /\ wcfg.organize_by_dir) =>
        \A n \in 1..Len(handled) :
            (handled[n].ev.kind = "CreateFolder" /\ EventDone(n)) =>
                /\ (IF n < Len(handled) THEN handled[n + 1].latest ELSE latest_dir)
                        = Some(handled[n].ev.path)
                /\ \A m \in (n + 1)..Len(handled) :
                      ( /\ NewFileEvent(handled[m].ev)
                        /\ Under(handled[m].ev.path, handled[n].ev.path)
                        /\ \A j \in (n + 1)..m : handled[j].ev.kind /= "CreateFolder"
                        /\ EventDone(m) )
                      => \E k \in 1..Len(CmdsOf(m)) : CmdsOf(m)[k].op = "LoadFile"

\* ------------------------------------------------------------------------
\* A client that moves what `platter file two.obj` loaded: invocations with
\* every kind of context and with arguments that hold NaN
\* ------------------------------------------------------------------------
ClientContexts == {NoContext, TableCtx(0)} \cup {EntityCtx(e) : e \in 0..2}
ClientArgs ==
    [set_position |-> {Vec3(3, 3, 3), <<NaN, One, Fl(2)>>},
     set_rotation |-> {<<Zero, Zero, Zero, Fl(2)>>, <<Zero, Zero, Fl(3), Zero>>,
                       <<NaN, Zero, Zero, Zero>>},
     set_scale |-> {Vec3(2, 2, 2), <<Fl(2), NaN, Fl(4)>>}]

ClientInvoke == Invoke(MaxCalls)
ClientBody == Body(ClientContexts, ClientArgs)

InitMethods ==
    /\ files = {WatchDir, F("two.obj")}
    /\ target_macos = FALSE
    /\ cmdq = <<LoadFile(F("two.obj"), NoneV, 0)>>
    /\ InitRest

NextMethods ==
    \/ HandlerRecv
    \/ HandlerLock
    \/ HandlerLoadFile
    \/ ClientInvoke
    \/ MethodLock
    \/ ClientBody

SpecMethods == InitMethods /\ [][NextMethods]_vars

\* ------------------------------------------------------------------------
\* The OBJ importer on its own (import_obj.rs import_file): the file is drawn
\* from families of inputs, read line by line and packed
\* ------------------------------------------------------------------------
\* `v` lines of 0 to 6 tokens
VFiles ==
    {<<LineV(SubSeq(<<x, 2 * x, 3 * x, w, 7, 9>>, 1, n))>> :
        x \in {2, 4}, w \in {1, 2}, n \in 0..6}

\* nv `v`, nt `vt` and nn `vn` lines, all different, then one face whose
\* three corners are kv/kt/kn, then possibly one more line of each kind
DefLines(nv, nt, nn) ==
    [i \in 1..nv |-> LineV(<<i, 0, 0>>)]
        \o [i \in 1..nt |-> LineVT(<<(i - 1) % 2, (i - 1) \div 2>>)]
        \o [i \in 1..nn |-> LineVN(<<0, i, 0>>)]
Idx(n) == ((0 - n)..n) \ {0}
IndexFiles ==
    {DefLines(nv, nt, nn)
        \o <<LineF(<<Corner(Some(kv), Some(kt), Some(kn)), Corner(Some(kv), Some(kt), Some(kn)),
                     Corner(Some(kv), Some(kt), Some(kn))>>)>>
        \o (IF more THEN <<LineV(<<9, 0, 0>>), LineVT(<<1, 1>>), LineVN(<<0, 9, 0>>)>> ELSE <<>>) :
        <<nv, nt, nn>> \in (1..MaxDefs) \X (1..MaxDefs) \X (1..MaxDefs),
        <<kv, kt, kn>> \in Idx(MaxDefs) \X Idx(MaxDefs) \X Idx(MaxDefs),
        more \in BOOLEAN}

\* one quad face over four vertices in the plane z = 0: a dart in both
\* orientations and from each of its corners, and a square
Dart == << <<1, 1, 0>>, <<0, 4, 0>>, <<0, 0, 0>>, <<4, 0, 0>> >>
Square == << <<0, 0, 0>>, <<2, 0, 0>>, <<2, 2, 0>>, <<0, 2, 0>> >>
Reversed(P) == [i \in 1..Len(P) |-> P[Len(P) + 1 - i]]
Rotated(P, r) == [i \in 1..Len(P) |-> P[((i - 1 + r) % Len(P)) + 1]]
QuadFace == LineF(<<CornerV(1), CornerV(2), CornerV(3), CornerV(4)>>)
QuadFiles ==
    {[i \in 1..4 |-> LineV(Rotated(P, r)[i])] \o <<QuadFace>> :
        P \in {Dart, Reversed(Dart), Square}, r \in 0..3}

\* four vertices, then sections of faces over them: the first section may
\* have no `o` line, an `o` line without a name reads as Unknown
SectionHeaders == {"A", "B", "Unknown"}
SectionFaces ==
    {<<LineF(<<CornerV(1), CornerV(2), CornerV(3)>>)>>,
     <<LineF(<<CornerV(2), CornerV(3), CornerV(4)>>)>>,
     <<QuadFace>>}
Section(h, fs) == IF h = "" THEN fs ELSE <<LineO(h)>> \o fs
RECURSIVE SectionBodies(_)
SectionBodies(n) ==
    IF n = 1
    THEN {Section(h, fs) : h \in {""} \cup SectionHeaders, fs \in SectionFaces}
    ELSE {b \o Section(h, fs) : b \in SectionBodies(n - 1), h \in SectionHeaders,
                                fs \in SectionFaces}
SectionFiles ==
    {[i \in 1..4 |-> LineV(Square[i])] \o b :
        b \in UNION {SectionBodies(n) : n \in 1..MaxSections}}

ObjInputs == VFiles \cup IndexFiles \cup QuadFiles \cup SectionFiles

\* one turn of the read loop: the next line goes to WFObjectState::handle
ObjReadLine ==
    /\ iread < Len(ifile)
    /\ all_objs = NoneV
    /\ wfobj' = WFHandle(wfobj, ifile[iread + 1])
    /\ iread' = iread + 1
    /\ UNCHANGED <<ifile, all_objs, gltfVars, cmdq, watcher_rx, enqueued, lock_holder, fsq>>
    /\ UNCHANGED <<handlerVars, registryVars, watcherVars, methodVars, envVars>>

\* pack_wf_state at the end of the file, for one iteration order of the
\* map of objects
ObjPack ==
    /\ iread = Len(ifile)
    /\ all_objs = NoneV
    /\ \E order \in SeqsOf(DOMAIN push_object(wfobj).obj_face_list) :
          all_objs' = Some(pack_wf_state(wfobj, order))
    /\ UNCHANGED <<ifile, iread, wfobj, gltfVars, cmdq, watcher_rx, enqueued, lock_holder, fsq>>
    /\ UNCHANGED <<handlerVars, registryVars, watcherVars, methodVars, envVars>>

InitObj ==
    /\ ifile \in ObjInputs
    /\ iread = 0
    /\ wfobj = WFObjectStateNew
    /\ all_objs = NoneV
    /\ GltfIdle
    /\ files = {}
    /\ target_macos = FALSE
    /\ cmdq = <<>>
    /\ InitState

NextObj == ObjReadLine \/ ObjPack

SpecObj == InitObj /\ [][NextObj]_vars

\* the whole script of test_exclusive_dir_watch has happened under the
\* notifier and the watcher has finished with all its notifications
TestDirScriptDone ==
    /\ Len(arrivals) = Len(TestDirScript)
    /\ \A k \in 1..Len(arrivals) :
          /\ arrivals[k].path = TestDirScript[k].path
          /\ arrivals[k].live
    /\ wpc = "select" /\ fsq = <<>>

ClearsOf(n) == LET IsClear(c) == c.op = "ClearTag" IN SelectSeq(CmdsOf(n), IsClear)

\* C11: an organize_by_dir watcher sends ClearTag exactly once per
\* folder-creation notification when latest_only is set and never when it
\* is not, never for a file notification, always with its one tag; for
\* folder d1, two files in d1, folder d2, two files in d2 it sends
\* ClearTag, LoadFile, LoadFile, ClearTag, LoadFile, LoadFile.
C11_ClearOncePerFolder ==
    (wpc /= "unspawned" /\ wcfg.organize_by_dir) =>
        /\ \A k \in 1..Len(emitted) : emitted[k].tag = latest_tag
        /\ \A n \in 1..Len(handled) :
              IF handled[n].ev.kind = "CreateFolder" /\ wcfg.latest_only
              THEN /\ Len(ClearsOf(n)) <= 1
                   /\ EventDone(n) => CmdsOf(n) = ClearsOf(n) /\ Len(ClearsOf(n)) = 1
              ELSE ClearsOf(n) = <<>>
        /\ (TestDirScriptDone /\ wcfg.latest_only) =>
              PlainSeq(LiveCmds) =
                  << Plain(ClearTag(Unwrap(latest_tag), 0)),
                     Plain(LoadFile(TestDirScript[2].path, latest_tag, 0)),
                     Plain(LoadFile(TestDirScript[3].path, latest_tag, 0)),
                     Plain(ClearTag(Unwrap(latest_tag), 0)),
                     Plain(LoadFile(TestDirScript[5].path, latest_tag, 0)),
                     Plain(LoadFile(TestDirScript[6].path, latest_tag, 0)) >>

C11_Witness ==
    /\ wpc /= "unspawned" /\ wcfg.organize_by_dir /\ wcfg.latest_only
    /\ TestDirScriptDone
    /\ Len(LiveCmds) = 6


\* the commands sent by the step from the current state to the next
SentByStep == SubSeq(emitted', Len(emitted) + 1, Len(emitted'))

\* C12: for every configuration of latest_only and organize_by_dir, the
\* commands load_existing sends for an entry that exists at start are the
\* commands the live new-file path sends for that path.
C12_ExistingLikeNewFile ==
    [][ ( /\ wpc = "load_existing" /\ existing /= <<>>
          /\ existing' = Tail(existing)
          /\ Head(existing).ok
          /\ wpc' /= "panicked" )
        => PlainSeq(SentByStep) =
              PlainSeq(handle_new_file(Head(existing).path, Unwrap(latest_tag),
                                       wcfg, latest_dir, 0)) ]_vars

\* the commands load_existing has sent
ExistingCmds == LET Old(c) == c.ev = 0 IN SelectSeq(emitted, Old)

\* the entries of the directory enumeration that could be read, in order
ReadableListing ==
    LET Ok(e) == e.ok
        l == SelectSeq(Unwrap(listing), Ok)
    IN  [i \in 1..Len(l) |-> l[i].path]

\* load_existing has gone through the whole enumeration
EnumerationDone ==
    /\ wpc \in {"load_existing", "select", "sending", "stopped"}
    /\ existing = <<>>

\* C13: with load_existing the watcher sends exactly one LoadFile with its
\* tag per readable directory entry, in enumeration order, an unreadable
\* entry is skipped, and all of them are sent before any command caused by
\* a live notification.
C13_OneLoadPerExistingEntry ==
    (wpc /= "unspawned" /\ wcfg.load_existing /\ IsSome(listing)) =>
        LET exp == [i \in 1..Len(ReadableListing) |->
                       Plain(LoadFile(ReadableListing[i], latest_tag, 0))]
            got == PlainSeq(ExistingCmds)
        IN  /\ Len(got) <= Len(exp)
            /\ got = SubSeq(exp, 1, Len(got))
            /\ EnumerationDone => got = exp
            /\ \A i \in 1..Len(emitted), j \in 1..Len(emitted) :
                  (i < j /\ emitted[i].ev > 0) => emitted[j].ev > 0
            /\ (LiveCmds /= <<>>) => got = exp

C13_Witness ==
    /\ wpc /= "unspawned" /\ wcfg.load_existing /\ IsSome(listing)
    /\ EnumerationDone
    /\ \E i \in 1..Len(Unwrap(listing)) : ~Unwrap(listing)[i].ok
    /\ ReadableListing /= <<>>
    /\ LiveCmds /= <<>>


\* C14: a watcher without load_existing sends no command before the first
\* filesystem notification; with neither latest_only nor organize_by_dir it
\* sends exactly one LoadFile per new-file notification, in the order of the
\* notifications, and never a ClearTag.
C14_PlainWatcherOneLoadPerFile ==
    (wpc /= "unspawned" /\ ~wcfg.load_existing) =>
        /\ \A k \in 1..Len(emitted) : emitted[k].ev \in 1..Len(handled)
        /\ (~wcfg.latest_only /\ ~wcfg.organize_by_dir) =>
              /\ \A k \in 1..Len(emitted) : emitted[k].op = "LoadFile"
              /\ \A i \in 1..Len(emitted), j \in 1..Len(emitted) :
                    i < j => emitted[i].ev < emitted[j].ev
              /\ \A n \in 1..Len(handled) :
                    IF NewFileEvent(handled[n].ev)
                    THEN EventDone(n) =>
                            PlainSeq(CmdsOf(n)) =
                                <<Plain(LoadFile(handled[n].ev.path, latest_tag, 0))>>
                    ELSE CmdsOf(n) = <<>>

C14_Witness ==
    /\ wpc = "select" /\ ~wcfg.load_existing
    /\ ~wcfg.latest_only /\ ~wcfg.organize_by_dir
    /\ fsq = <<>>
    /\ Len(emitted) = 2
    /\ \E n \in 1..Len(handled) : ~NewFileEvent(handled[n].ev)


\* C15: once the stop signal is broadcast the running watcher eventually
\* unsubscribes from the directory and returns, and it sends no command
\* after it has taken the stop branch.
C15_StopEventuallyReturns ==
    /\ stop_sent ~> (wpc = "stopped" /\ ~subscribed)
    /\ [][wpc = "stopped" => (wpc' = "stopped" /\ emitted' = emitted)]_vars

\* C16: when the receiver of the command channel is gone, a send of the
\* watcher does not end the watcher task: the watcher never panics.
C16_SendFailureIsTolerated == wpc /= "panicked"


\* C17: when a scene is registered, its first part carries the three methods
\* and the transform made of the offset and the rescale of the arguments
C17_RootGetsMethodsAndRescale ==
    [][\A id \in (DOMAIN items') \ (DOMAIN items) :
          entities'[items'[id].parts[1]] =
              [methods_list |-> Some(Methods), transform |-> Some(RescaleTransform)]]_vars


\* the context names the first part of a scene of the registry
NamesRoot(r, c) ==
    /\ c.kind = "entity"
    /\ \E id \in DOMAIN r.items :
          r.items[id].parts /= <<>> /\ r.items[id].parts[1] = c.id

Exceptions == {"method_not_found", "internal_error"}

\* position, rotation and scale of every scene
Placement(its) ==
    [id \in DOMAIN its |-> <<its[id].position, its[id].rotation, its[id].scale>>]

\* C18: an invocation whose context is absent, not an entity, an entity id
\* that does not resolve or an entity that is not the root of a registered
\* scene (the former root of a removed scene included) returns
\* method-not-found or internal-error and moves no scene
C18_BadContextIsAnException ==
    /\ [][(mpc = "body" /\ mpc' = "idle" /\ ~NamesRoot(Reg, minv'.ctx))
            => /\ minv'.result \in Exceptions
               /\ Placement(items') = Placement(items)
               /\ entities' = entities]_vars
    /\ [](\A id \in DOMAIN items : \A m \in Methods : \A a \in ClientArgs[m] :
            LET r == remove_object(Reg, id)
                c == EntityCtx(items[id].parts[1])
                res == CASE m = "set_position" -> set_position(r, c, a)
                         [] m = "set_rotation" -> set_rotation(r, c, a)
                         [] OTHER -> set_scale(r, c, a)
            IN  res.result \in Exceptions /\ res.reg = r)

\* a scene of two parts is registered and an invocation on its second part
\* has returned internal-error
C18_Witness ==
    /\ mpc = "idle"
    /\ minv.result = "internal_error"
    /\ \E id \in DOMAIN items :
          Len(items[id].parts) = 2 /\ minv.ctx = EntityCtx(items[id].parts[2])

\* the scene an invocation context names, when it names a root
SceneOf(r, c) == CHOOSE id \in DOMAIN r.items :
                    r.items[id].parts /= <<>> /\ r.items[id].parts[1] = c.id

HasNaN(m) == \E r \in DOMAIN m : \E c \in DOMAIN m[r] : IsNaN(m[r][c])

\* C19: the NaN components of an argument are stored as 0 and the others
\* unchanged, and no transform published on an entity contains NaN
C19_NaNNeverPublished ==
    /\ [][(mpc = "body" /\ mpc' = "idle" /\ minv'.result = "none"
             /\ minv'.method /= "set_rotation")
            => LET a == minv'.arg
                   o == items'[SceneOf(Reg, minv'.ctx)]
                   stored == IF minv'.method = "set_position" THEN o.position ELSE o.scale
               IN  \A n \in 1..3 : stored[n] = IF IsNaN(a[n]) THEN Zero ELSE a[n]]_vars
    /\ [](\A e \in DOMAIN entities :
            IsSome(entities[e].transform) => ~HasNaN(Unwrap(entities[e].transform)))

\* the three factors of the transform as 4x4 matrices
Identity4 == [r \in 1..4 |-> [c \in 1..4 |-> IF r = c THEN One ELSE Zero]]
TranslationOf(p) == [r \in 1..4 |-> [c \in 1..4 |->
                        IF c = 4 /\ r < 4 THEN p[r] ELSE Identity4[r][c]]]
RotationOf(q) == [r \in 1..4 |-> [c \in 1..4 |->
                        IF r < 4 /\ c < 4 THEN RotationMatrix(q)[r][c] ELSE Identity4[r][c]]]
ScaleOf(sc) == [r \in 1..4 |-> [c \in 1..4 |->
                        IF r = c /\ r < 4 THEN sc[r] ELSE Identity4[r][c]]]
\* the image of a point under a 4x4 affine matrix
TransformPoint(m, pt) ==
    [r \in 1..3 |-> FAdd(FAdd(FMul(m[r][1], pt[1]), FMul(m[r][2], pt[2])),
                         FAdd(FMul(m[r][3], pt[3]), m[r][4]))]

\* the stored rotation is a quaternion of numbers
FiniteRotation(o) ==
    ~(IsNaN(o.rotation.w) \/ IsNaN(o.rotation.i) \/ IsNaN(o.rotation.j) \/ IsNaN(o.rotation.k))

\* C20: the matrix published for a scene whose rotation is a quaternion of
\* numbers is Translation(p) * Rotation(q) * Scale(s) of its stored fields,
\* which are the identity when nothing was published yet;
\* a setter stores its own argument and leaves the two other fields alone;
\* scale (2,2,2) with position (3,3,3) maps (4,4,4) to (11,11,11)
C20_TransformIsTRS ==
    /\ [](\A id \in DOMAIN items :
            LET o == items[id]
                tf == entities[o.parts[1]].transform
            IN  /\ (IsSome(tf) /\ FiniteRotation(o)) =>
                      Unwrap(tf) = MatMul(MatMul(TranslationOf(o.position), RotationOf(o.rotation)),
                                          ScaleOf(o.scale))
                /\ ~IsSome(tf) =>
                      (o.position = Vec3Identity /\ o.rotation = QuatIdentity
                         /\ o.scale = Scale3Identity)
                /\ (IsSome(tf) /\ o.position = Vec3(3, 3, 3) /\ o.scale = Vec3(2, 2, 2)
                       /\ o.rotation = QuatIdentity) =>
                      TransformPoint(Unwrap(tf), Vec3(4, 4, 4)) = Vec3(11, 11, 11))
    /\ [][(mpc = "body" /\ mpc' = "idle" /\ minv'.result = "none")
            => LET id == SceneOf(Reg, minv'.ctx)
                   a == Sanitize(minv'.arg)
                   m == minv'.method
                   o == items[id]
                   n == items'[id]
               IN  /\ n.position = IF m = "set_position" THEN a ELSE o.position
                   /\ n.rotation = IF m = "set_rotation"
                                   THEN UnitFromQuaternion(Quat(a[4], a[1], a[2], a[3]))
                                   ELSE o.rotation
                   /\ n.scale = IF m = "set_scale" THEN a ELSE o.scale]_vars

\* a scene got scale (2,2,2), position (3,3,3) and the half turn about z,
\* and its matrix is published
C20_Witness ==
    \E id \in DOMAIN items :
        /\ items[id].position = Vec3(3, 3, 3)
        /\ items[id].scale = Vec3(2, 2, 2)
        /\ items[id].rotation = Quat(Zero, Zero, Zero, One)
        /\ IsSome(entities[items[id].parts[1]].transform)
        /\ TransformPoint(Unwrap(entities[items[id].parts[1]].transform), Vec3(4, 4, 4))
              = Vec3(-5, -5, 11)

\* C21: every asset id passed to add_asset while a scene was built is in
\* the published list of the scene, and dropping the scene leaves none of
\* its assets hosted
C21_PublishedCoversAssets ==
    \A id \in DOMAIN items :
        /\ items[id].assets \subseteq {items[id].published[n] : n \in DOMAIN items[id].published}
        /\ remove_object(Reg, id).hosted \cap items[id].assets = {}

\* C22: the buffer of a mesh is referenced by URL exactly when its size is
\* above the large-buffer threshold, and is inline at or below it
C22_UrlIffAboveThreshold ==
    \A id \in DOMAIN items : \A n \in DOMAIN items[id].meshes :
        LET mesh == items[id].meshes[n]
        IN  (mesh.repr = "url") <=> (mesh.bytes > PlatterInit.size_large_limit)


\* ------------------------------------------------------------------------
\* The glTF importer on its own (import_gltf.rs): the conversion of the
\* nodes of a document into entities
\* ------------------------------------------------------------------------
\* a document of n nodes 0..n-1 given by the parent of each node (-1 for a
\* root); node.children() lists the children by index
GltfNodes(n) == 0..(n - 1)
RECURSIVE Ancestor(_, _, _)
Ancestor(par, x, k) ==
    IF k = 0 \/ x = -1 THEN x ELSE Ancestor(par, par[x], k - 1)
Forests(n) ==
    {par \in [GltfNodes(n) -> {-1} \cup GltfNodes(n)] :
        \A x \in GltfNodes(n) : Ancestor(par, x, n) = -1}
RECURSIVE Ascending(_)
Ascending(S) ==
    IF S = {} THEN <<>>
    ELSE LET m == CHOOSE x \in S : \A y \in S : x <= y
         IN  <<m>> \o Ascending(S \ {m})
ChildrenOf(par, n) ==
    [i \in 1..n |-> Ascending({c \in GltfNodes(n) : par[c] = i - 1})]
GltfInputs == UNION {{ChildrenOf(par, n) : par \in Forests(n)} : n \in 1..MaxNodes}

\* recursive_convert_node on st = [n_nodes, entities]: the entity of a node
\* that is in the map is returned as it is; a new entity gets the given
\* parent and is the parent given to the conversion of its children
RECURSIVE recursive_convert_node(_, _, _, _)
RECURSIVE ConvertChildren(_, _, _, _)
recursive_convert_node(doc, st, node, parent) ==
    IF node \in DOMAIN st.n_nodes THEN st
    ELSE LET new_ent == Len(st.entities)
         IN  Bind([n_nodes |-> MapInsert(st.n_nodes, node, new_ent),
                   entities |-> Append(st.entities, [node |-> node, parent |-> parent])],
                  LAMBDA st1 : ConvertChildren(doc, st1, doc[node + 1], Some(new_ent)))
ConvertChildren(doc, st, children, parent) ==
    IF children = <<>> THEN st
    ELSE Bind(recursive_convert_node(doc, st, Head(children), parent),
              LAMBDA st1 : ConvertChildren(doc, st1, Tail(children), parent))

\* one turn of `for node in gltf.nodes()`: the node is converted with no
\* parent
GltfConvertNode ==
    /\ gnext < Len(gltf)
    /\ LET st == recursive_convert_node(gltf, [n_nodes |-> n_nodes, entities |-> gentities],
                                         gnext, NoneV)
       IN  /\ n_nodes' = st.n_nodes
           /\ gentities' = st.entities
    /\ gnext' = gnext + 1
    /\ UNCHANGED <<gltf, gparts, ifile, iread, wfobj, all_objs>>
    /\ UNCHANGED <<cmdq, watcher_rx, enqueued, lock_holder, fsq>>
    /\ UNCHANGED <<handlerVars, registryVars, watcherVars, methodVars, envVars>>

\* the root Object: the entity of each node, in the order of the nodes
GltfRoot ==
    /\ gnext = Len(gltf)
    /\ gparts = NoneV
    /\ gparts' = Some([i \in 1..Len(gltf) |-> n_nodes[i - 1]])
    /\ UNCHANGED <<gltf, gnext, n_nodes, gentities, ifile, iread, wfobj, all_objs>>
    /\ UNCHANGED <<cmdq, watcher_rx, enqueued, lock_holder, fsq>>
    /\ UNCHANGED <<handlerVars, registryVars, watcherVars, methodVars, envVars>>

InitGltf ==
    /\ gltf \in GltfInputs
    /\ gnext = 0
    /\ n_nodes = [n \in {} |-> 0]
    /\ gentities = <<>>
    /\ gparts = NoneV
    /\ ObjIdle
    /\ files = {}
    /\ target_macos = FALSE
    /\ cmdq = <<>>
    /\ InitState

NextGltf == GltfConvertNode \/ GltfRoot

SpecGltf == InitGltf /\ [][NextGltf]_vars

\* ------------------------------------------------------------------------
\* The registry of PlatterState on its own: add_object (through
\* import_file), remove_object and clear_source called in any order
\* ------------------------------------------------------------------------
RegFiles == {WatchDir, F("cube.obj"), F("two.obj"), F("nofaces.obj")}
RegTags == {1, 2}

RegAdd ==
    /\ hpc = "recv"
    /\ next_item_id < MaxAdds
    /\ \E p \in files \ Dirs : \E source \in {NoneV} \cup {Some(t) : t \in RegTags} :
          \E order \in ImportOrders(p) :
            LET res == import_file(Reg, files, p, source, order, NoCmd.ev)
            IN  /\ SetReg(res.reg)
                /\ hpc' = IF res.outcome = "panic" THEN "panicked" ELSE hpc
    /\ UNCHANGED <<cur, entries, processed, attempts, cmdq, watcher_rx, enqueued, lock_holder, fsq>>
    /\ UNCHANGED <<watcherVars, methodVars, envVars, importVars>>

RegRemove ==
    /\ hpc = "recv"
    /\ \E id \in DOMAIN items : SetReg(remove_object(Reg, id))
    /\ UNCHANGED <<handlerVars, cmdq, watcher_rx, enqueued, lock_holder, fsq>>
    /\ UNCHANGED <<watcherVars, methodVars, envVars, importVars>>

RegClear ==
    /\ hpc = "recv"
    /\ \E t \in RegTags : SetReg(clear_source(Reg, t))
    /\ UNCHANGED <<handlerVars, cmdq, watcher_rx, enqueued, lock_holder, fsq>>
    /\ UNCHANGED <<watcherVars, methodVars, envVars, importVars>>

InitReg ==
    /\ files = RegFiles
    /\ target_macos = FALSE
    /\ cmdq = <<>>
    /\ InitRest

NextReg == RegAdd \/ RegRemove \/ RegClear

SpecReg == InitReg /\ [][NextReg]_vars

\* ------------------------------------------------------------------------
\* The OBJ importer: vocabulary of the properties
\* ------------------------------------------------------------------------
Packed == Unwrap(all_objs)
PackedOk == IsSome(all_objs) /\ ~Packed.panic
\* the state pack_wf_state works on
Parsed == push_object(wfobj)

\* the corners of the faces of a list of face markers, face by face
RECURSIVE FaceCorners(_, _)
FaceCorners(ms, face) ==
    IF ms = <<>> THEN <<>>
    ELSE IF Head(ms).end THEN <<face>> \o FaceCorners(Tail(ms), <<>>)
    ELSE FaceCorners(Tail(ms), Append(face, Head(ms).def))

OnlyTriangles(fc) == \A f \in 1..Len(fc) : Len(fc[f]) = 3

\* C23: every triangle index of a packed object is smaller than the length
\* of the object's own vertex buffer, and (for an object of triangular
\* faces) the vertex at that index is the one assembled from the corner's
\* (v,t,n) triple, also when two objects use the same triple
C23_IndicesAreOwn ==
    PackedOk =>
        \A n \in 1..Len(Packed.ret) :
            LET o == Packed.ret[n]
                fc == FaceCorners(Parsed.obj_face_list[o.name], <<>>)
            IN  /\ \A k \in 1..Len(o.faces) : \A j \in 1..3 : o.faces[k][j] < Len(o.verts)
                /\ OnlyTriangles(fc) =>
                      /\ Len(o.faces) = Len(fc)
                      /\ \A k \in 1..Len(o.faces) : \A j \in 1..3 :
                            o.verts[o.faces[k][j] + 1] = assemble_vertex(Parsed, fc[k][j])

\* the corners of a planar quad (z = 0) that are reflex: the turn at the
\* corner is against the orientation of the polygon
Turn(P, k) ==
    LET a == P[((k + 3) % 4) + 1]
        b == P[k + 1]
        c == P[((k + 1) % 4) + 1]
    IN  (b[1] - a[1]) * (c[2] - b[2]) - (b[2] - a[2]) * (c[1] - b[1])
Area2(P) ==
    LET T(k) == P[k + 1][1] * P[((k + 1) % 4) + 1][2] - P[((k + 1) % 4) + 1][1] * P[k + 1][2]
    IN  T(0) + T(1) + T(2) + T(3)
ReflexCorners(P) == {k \in 0..3 : Turn(P, k) * Area2(P) < 0}

\* the objects made of one 4-corner face over four vertices of their own:
\* the corner at position k has index k
OneQuad(o) ==
    LET fc == FaceCorners(Parsed.obj_face_list[o.name], <<>>)
    IN  Len(fc) = 1 /\ Len(fc[1]) = 4 /\ Len(o.verts) = 4
QuadPositions(o) == [i \in 1..4 |-> o.verts[i].position]

\* C24: the two triangles of a quad whose corner k is reflex both contain
\* that corner (the fan starts there); without a reflex corner the
\* triangles are [a,b,c] and [a,c,d]
C24_FanStartsAtReflexCorner ==
    PackedOk =>
        \A n \in 1..Len(Packed.ret) :
            LET o == Packed.ret[n]
            IN  OneQuad(o) =>
                  /\ Len(o.faces) = 2
                  /\ \A k \in ReflexCorners(QuadPositions(o)) : \A t \in 1..2 :
                        k \in {o.faces[t][j] : j \in 1..3}
                  /\ ReflexCorners(QuadPositions(o)) = {} =>
                        o.faces = << <<0, 1, 2>>, <<0, 2, 3>> >>

\* the number of lines of directive d among the first i lines of the file
CountOf(d, i) == Cardinality({j \in 1..i : ifile[j].d = d})

\* C25: a `v` line of exactly 4 tokens x y z w stores (x/w, y/w, z/w); a
\* `v` line of 3 tokens or of 6 tokens stores (x, y, z) undivided
C25_FourTokensDivideByW ==
    \A i \in 1..iread :
        ifile[i].d = "v" =>
            LET t == ifile[i].toks
                p == wfobj.vert_list[CountOf("v", i)]
            IN  /\ (Len(t) = 4 /\ t[4] /= 0) =>
                      p = <<t[1] \div t[4], t[2] \div t[4], t[3] \div t[4]>>
                /\ Len(t) \in {3, 6} => p = <<t[1], t[2], t[3]>>

\* the element of kind d that index k of the face on line i names: the k-th
\* defined one for k > 0, the -k-th most recent one before line i for k < 0
ElementNo(d, k, i) == IF k > 0 THEN k ELSE CountOf(d, i) + k + 1
Names(d, k, i) == k > 0 \/ ElementNo(d, k, i) \in 1..CountOf(d, i)
ElementLine(d, k, i) ==
    CHOOSE l \in 1..Len(ifile) : ifile[l].d = d /\ CountOf(d, l) = ElementNo(d, k, i)
Toks3(l) == <<ifile[l].toks[1], ifile[l].toks[2], ifile[l].toks[3]>>
UV(l) == <<QuantizeUV(ifile[l].toks[1]), QuantizeUV(ifile[l].toks[2])>>

FaceLines == {i \in 1..Len(ifile) : ifile[i].d = "f"}

\* C26: a positive index k of a face names the 0-based element k-1, a
\* negative index -k the k-th most recent element defined before the face
\* line, for the vertex, texture and normal lists each on its own; the
\* packed vertex of the corner carries the values of those lines
C26_FaceIndicesResolve ==
    /\ (iread >= 1 /\ ifile[iread].d = "f") =>
          LET cs == ifile[iread].corners
              ms == wfobj.last_face_list
          IN  \A j \in 1..Len(cs) :
                LET def == ms[Len(ms) - Len(cs) - 1 + j].def
                    Holds(o, raw, d) ==
                        (IsSome(raw) /\ Names(d, Unwrap(raw), iread)) =>
                            o = Some(ElementNo(d, Unwrap(raw), iread) - 1)
                IN  IsSome(cs[j].v) =>
                      /\ Holds(def.v, cs[j].v, "v")
                      /\ Holds(def.t, cs[j].t, "vt")
                      /\ Holds(def.n, cs[j].n, "vn")
    /\ (PackedOk /\ Cardinality(FaceLines) = 1) =>
          LET i == CHOOSE l \in FaceLines : TRUE
              cs == ifile[i].corners
              o == Packed.ret[1]
          IN  Len(cs) = 3 =>
                \A j \in 1..3 :
                    LET vx == o.verts[o.faces[1][j] + 1]
                    IN  IsSome(cs[j].v) =>
                          /\ vx.position = Toks3(ElementLine("v", Unwrap(cs[j].v), i))
                          /\ IsSome(cs[j].t) =>
                                vx.texture = UV(ElementLine("vt", Unwrap(cs[j].t), i))
                          /\ IsSome(cs[j].n) =>
                                vx.normal = Toks3(ElementLine("vn", Unwrap(cs[j].n), i))

\* a packed file whose face names the last vertex, the texture before the
\* last and the first normal, and that defines more of each after the face
C26_Witness ==
    /\ PackedOk
    /\ \E i \in FaceLines :
          /\ ifile[i].corners[1] = Corner(Some(-1), Some(-2), Some(1))
          /\ CountOf("v", i) = 2
          /\ CountOf("vt", i) = 2
          /\ CountOf("v", Len(ifile)) = 3
          /\ Packed.ret[1].verts[1].position = <<2, 0, 0>>
          /\ Packed.ret[1].verts[1].texture = <<0, 0>>
          /\ Packed.ret[1].verts[1].normal = <<0, 1, 0>>

\* C27: scene ids are distinct and each new id is greater than every id
\* handed out before, also after removals; every id of a tag's set is a key
\* of items; root_to_item maps exactly the root entities of the scenes of
\* items, each to its own scene id
RegistryInv ==
    /\ \A id \in DOMAIN items : id < next_item_id
    /\ \A a, b \in DOMAIN items : a /= b => items[a].parts[1] /= items[b].parts[1]
    /\ \A t \in DOMAIN source_map : source_map[t] \subseteq DOMAIN items
    /\ DOMAIN root_to_item = {items[id].parts[1] : id \in DOMAIN items}
    /\ \A id \in DOMAIN items : root_to_item[items[id].parts[1]] = id
IdsGrow ==
    /\ next_item_id' >= next_item_id
    /\ \A id \in (DOMAIN items') \ (DOMAIN items) :
          /\ id >= next_item_id
          /\ \A old \in DOMAIN items : id > old
C27_RegistryConsistent == []RegistryInv /\ [][IdsGrow]_vars

\* two scenes left after the removal of the one added between them
C27_Witness ==
    /\ DOMAIN items = {0, 2}
    /\ next_item_id = 3
    /\ DOMAIN root_to_item = {items[0].parts[1], items[2].parts[1]}

RECURSIVE SumSeq(_)
SumSeq(q) == IF q = <<>> THEN 0 ELSE Head(q) + SumSeq(Tail(q))

\* the triangles of the face directives of the file: one for three
\* corners, two for four
TrianglesOf(line) ==
    IF line.d = "f" /\ Len(line.corners) \in {3, 4} THEN Len(line.corners) - 2 ELSE 0

\* C28: every 3- or 4-vertex face directive contributes its triangles to
\* exactly one packed object, whatever the names of the sections: the
\* objects hold as many triangles as the face directives of the file make
C28_NoFaceDropped ==
    PackedOk =>
        SumSeq([n \in 1..Len(Packed.ret) |-> Len(Packed.ret[n].faces)])
            = SumSeq([i \in 1..Len(ifile) |-> TrianglesOf(ifile[i])])

\* C29: after a glTF import each node has exactly one entity, and the
\* entity of every child node has the entity of its parent node as its
\* parent, whatever the indices of the two nodes
C29_ChildEntityHasParentEntity ==
    IsSome(gparts) =>
        /\ \A node \in GltfNodes(Len(gltf)) :
              /\ Cardinality({e \in 1..Len(gentities) : gentities[e].node = node}) = 1
              /\ gentities[n_nodes[node] + 1].node = node
              /\ Unwrap(gparts)[node + 1] = n_nodes[node]
        /\ \A p \in GltfNodes(Len(gltf)) : \A k \in 1..Len(gltf[p + 1]) :
              gentities[n_nodes[gltf[p + 1][k]] + 1].parent = Some(n_nodes[p])

\* C30: with load_existing, a file copied into the watched directory while
\* the existing entries (which could be read) are enumerated, before the
\* subscription, has a LoadFile once the watcher is subscribed and has
\* nothing left to handle
C30_NoFileMissedAtStart ==
    (wcfg.load_existing /\ IsSome(listing) /\ wpc = "select" /\ subscribed /\ fsq = <<>>) =>
        \A k \in 1..Len(arrivals) :
            (/\ arrivals[k].kind = "file"
             /\ Parent(arrivals[k].path) = wcfg.dir
             /\ ~arrivals[k].live) =>
                \E n \in 1..Len(emitted) :
                    emitted[n].op = "LoadFile" /\ emitted[n].path = arrivals[k].path

====
